---- MODULE Spec2Model ----
(***************************************************************************)
(* TorForge: the synthetic address allocator (internal/netfilter/fakedns.go) *)
(* and the DNS-over-Tor resolver (internal/netfilter/dns.go).               *)
(*                                                                         *)
(* Strings are sequences of one-character strings, so that case folding,   *)
(* the trailing dot, suffix tests and address formatting are computed.     *)
(* A net.IP is a sequence of bytes (length 4 or 16, <<>> for nil).         *)
(***************************************************************************)
EXTENDS Integers, Sequences, FiniteSets, TLC

VARIABLES
    fakeSubnet,   \* FakeDNSServer.fakeSubnet : [IP, Mask]
    mappings,     \* FakeDNSServer.mappings    : canonical domain -> net.IP
    reverseMaps,  \* FakeDNSServer.reverseMaps : address string -> domain
    nextIP,       \* FakeDNSServer.nextIP      : the allocation cursor
    ttl,          \* FakeDNSServer.ttl
    running,      \* FakeDNSServer.running
    server,       \* FakeDNSServer.server      : "nil" or "srv"
    listener,     \* state of the dns.Server behind f.server
    mu,           \* FakeDNSServer.mu          : [w: holder or 0, r: set of readers]
    pc,           \* per goroutine: control point
    call,         \* per goroutine: the operation in progress and its argument
    loc,          \* per goroutine: locals of the operation
    ret,          \* per goroutine: the value the operation returns
    issued,       \* history: canonical domain -> addresses getFakeIP returned for it
    order,        \* history: the canonical domains, one per allocation, in order
    bypassCfg,    \* DNSResolver.bypassCfg   : "nil" or [Enabled, Domains]
    torUpstream,  \* DNSResolver.torUpstream : the anonymizer's resolver address
    cache,        \* DNSResolver.cache.entries : <<domain, qtype>> -> [response, timestamp]
    now,          \* the wall clock, in minutes
    rpc,          \* per query task of the resolver: control point
    req,          \* per query task: the inbound message
    reply,        \* per query task: the messages written to the client
    sentTo,       \* history, per query task: the addresses the query was sent to
    cacheOps,     \* history, per query task: the cache operations made for it
    served,       \* the number of queries the resolver has received
    rrunning,     \* DNSResolver.running
    rserver,      \* DNSResolver.server     : 0 (nil) or the dns.Server created
    rlistener,    \* state of each dns.Server the resolver has created
    rmu,          \* DNSResolver.mu         : the goroutine holding it, or 0
    ecfg,            \* Engine.cfg : the bypass configuration
    domainPatterns,  \* Engine.domainPatterns : the compiled configuration patterns
    cidrNets,        \* Engine.cidrNets : the parsed configuration blocks
    protocols,       \* Engine.protocols : the keys set to true
    applications,    \* Engine.applications : the keys set to true
    customRules,     \* Engine.customRules
    geoIP,           \* Engine.geoIP : the country matcher, or nil
    elast,           \* the engine's last call: operation, argument, result
    returned,        \* the list the last GetRules gave its caller
    ai,              \* SplitTunnelAI : appProfiles, learningEnabled, sensitiveDomains, speedDomains
    alast,           \* the classifier's last finished call: operation, arguments, result
    arec,            \* per goroutine: the RecordConnection call that waits for ai.mu
    recorded         \* history: the number of RecordConnection calls made

fvars == <<fakeSubnet, mappings, reverseMaps, nextIP, ttl, running, server,
           listener, mu, pc, call, loc, ret, issued, order>>

\* DNSResolver: running, server and mu, and the servers behind server
rlife == <<rrunning, rserver, rlistener, rmu>>

rvars == <<bypassCfg, torUpstream, cache, now, rpc, req, reply, sentTo,
           cacheOps, served, rlife>>

evars == <<ecfg, domainPatterns, cidrNets, protocols, applications, customRules,
           geoIP, elast, returned>>

avars == <<ai, alast, arec, recorded>>

vars == <<fvars, rvars, evars, avars>>

----------------------------------------------------------------------------
(* Bounds *)

MaxGoroutines == 2

Goroutines == 1..MaxGoroutines

----------------------------------------------------------------------------
(* Strings *)

Upper == <<"A","B","C","D","E","F","G","H","I","J","K","L","M",
           "N","O","P","Q","R","S","T","U","V","W","X","Y","Z">>

Lower == <<"a","b","c","d","e","f","g","h","i","j","k","l","m",
           "n","o","p","q","r","s","t","u","v","w","x","y","z">>

Digit == <<"0","1","2","3","4","5","6","7","8","9">>

ToLowerRune(c) ==
    IF \E i \in 1..Len(Upper) : Upper[i] = c
    THEN Lower[CHOOSE i \in 1..Len(Upper) : Upper[i] = c]
    ELSE c

\* strings.ToLower on ASCII
ToLower(s) == [i \in 1..Len(s) |-> ToLowerRune(s[i])]

\* dns.IsFqdn (names here carry no escaped dots)
IsFqdn(s) == Len(s) > 0 /\ s[Len(s)] = "."

\* dns.Fqdn
Fqdn(s) == IF IsFqdn(s) THEN s ELSE s \o <<".">>

\* a plausible slip: the trailing dot is added but the case is kept
CanonicalNameNoFold(s) == Fqdn(s)

\* dns.CanonicalName, as getFakeIP and ptrToIP use it
CanonicalName(s) == ToLower(Fqdn(s))

HasSuffix(s, suf) ==
    Len(s) >= Len(suf) /\ SubSeq(s, Len(s) - Len(suf) + 1, Len(s)) = suf

HasPrefix(s, pre) ==
    Len(s) >= Len(pre) /\ SubSeq(s, 1, Len(pre)) = pre

\* strings.TrimSuffix
TrimSuffix(s, suf) ==
    IF HasSuffix(s, suf) THEN SubSeq(s, 1, Len(s) - Len(suf)) ELSE s

RECURSIVE Itoa(_)
Itoa(n) ==
    IF n < 10 THEN <<Digit[n + 1]>>
    ELSE Itoa(n \div 10) \o <<Digit[(n % 10) + 1]>>

----------------------------------------------------------------------------
(* Addresses *)

RECURSIVE Pow2(_)
Pow2(n) == IF n = 0 THEN 1 ELSE 2 * Pow2(n - 1)

RECURSIVE BitAnd(_, _)
BitAnd(a, b) ==
    IF a = 0 \/ b = 0 THEN 0
    ELSE (a % 2) * (b % 2) + 2 * BitAnd(a \div 2, b \div 2)

\* net.CIDRMask(ones, 32)
CIDRMask(ones) ==
    [i \in 1..4 |->
        IF ones >= 8 * i THEN 255
        ELSE IF ones <= 8 * (i - 1) THEN 0
        ELSE 256 - Pow2(8 * i - ones)]

\* net.IP.Mask for an address and a mask of the same length
MaskIP(ip, mask) == [i \in 1..Len(ip) |-> BitAnd(ip[i], mask[i])]

\* net.ParseCIDR on an IPv4 prefix: the network number and the mask
ParseCIDR(c) ==
    [IP |-> MaskIP(c.addr, CIDRMask(c.ones)), Mask |-> CIDRMask(c.ones)]

v4InV6Prefix == <<0, 0, 0, 0, 0, 0, 0, 0, 0, 0, 255, 255>>

\* net.IP.To4: the 4-byte form, <<>> (nil) when there is none
To4(ip) ==
    IF Len(ip) = 4 THEN ip
    ELSE IF Len(ip) = 16 /\ SubSeq(ip, 1, 12) = v4InV6Prefix
         THEN SubSeq(ip, 13, 16)
         ELSE <<>>

\* net.IP.String for an address that has a 4-byte form
IPString(ip) ==
    LET p == To4(ip) IN
    Itoa(p[1]) \o <<".">> \o Itoa(p[2]) \o <<".">> \o
    Itoa(p[3]) \o <<".">> \o Itoa(p[4])

\* a plausible slip: membership is tested without applying the mask
ContainsNoMask(n, ip) ==
    LET x == IF To4(ip) # <<>> THEN To4(ip) ELSE ip IN
    Len(x) = Len(n.IP) /\ \A i \in 1..Len(x) : n.IP[i] = x[i]

\* net.IPNet.Contains
Contains(n, ip) ==
    LET x == IF To4(ip) # <<>> THEN To4(ip) ELSE ip IN
    Len(x) = Len(n.IP) /\
    \A i \in 1..Len(x) : BitAnd(n.IP[i], n.Mask[i]) = BitAnd(x[i], n.Mask[i])

RECURSIVE incrementFrom(_, _)
incrementFrom(ip, i) ==
    IF i < 1 THEN ip
    ELSE LET b == (ip[i] + 1) % 256 IN
         IF b > 0 THEN [ip EXCEPT ![i] = b]
         ELSE incrementFrom([ip EXCEPT ![i] = b], i - 1)

\* a plausible slip: only the last byte is incremented, without the carry
incrementIPNoCarry(ip) == [ip EXCEPT ![Len(ip)] = (ip[Len(ip)] + 1) % 256]

\* a plausible slip: the cursor is not advanced
incrementIPNone(ip) == ip

\* incrementIP: add one, carrying from the last byte towards the first
incrementIP(ip) == incrementFrom(ip, Len(ip))

----------------------------------------------------------------------------
(* Go maps *)

MapHas(m, k) == k \in DOMAIN m

MapGet(m, k, zero) == IF k \in DOMAIN m THEN m[k] ELSE zero

MapSet(m, k, v) == [x \in (DOMAIN m) \cup {k} |-> IF x = k THEN v ELSE m[x]]

EmptyMap == [x \in {} |-> 0]

----------------------------------------------------------------------------
(* Reverse names *)

InAddrArpa == <<".","i","n","-","a","d","d","r",".","a","r","p","a",".">>

RECURSIVE splitFrom(_, _, _, _)
splitFrom(s, i, parts, current) ==
    IF i > Len(s)
    THEN IF current # <<>> THEN Append(parts, current) ELSE parts
    ELSE IF s[i] = "."
         THEN IF current # <<>>
              THEN splitFrom(s, i + 1, Append(parts, current), <<>>)
              ELSE splitFrom(s, i + 1, parts, current)
         ELSE splitFrom(s, i + 1, parts, Append(current, s[i]))

\* splitDNSName: the non-empty labels between dots
splitDNSName(s) == splitFrom(s, 1, <<>>, <<>>)

\* a plausible slip: the labels are rejoined in the order they came in
ptrToIPUnreversed(ptr0) ==
    LET ptr == CanonicalName(ptr0) IN
    IF Len(ptr) < 14 THEN <<>>
    ELSE IF SubSeq(ptr, Len(ptr) - 13, Len(ptr)) # InAddrArpa THEN <<>>
    ELSE LET parts == splitDNSName(SubSeq(ptr, 1, Len(ptr) - 14)) IN
         IF Len(parts) # 4 THEN <<>>
         ELSE parts[1] \o <<".">> \o parts[2] \o <<".">> \o
              parts[3] \o <<".">> \o parts[4]

\* ptrToIP: "d.c.b.a.in-addr.arpa." to "a.b.c.d", <<>> ("") when malformed
ptrToIP(ptr0) ==
    LET ptr == CanonicalName(ptr0) IN
    IF Len(ptr) < 14 THEN <<>>
    ELSE IF SubSeq(ptr, Len(ptr) - 13, Len(ptr)) # InAddrArpa THEN <<>>
    ELSE LET parts == splitDNSName(SubSeq(ptr, 1, Len(ptr) - 14)) IN
         IF Len(parts) # 4 THEN <<>>
         ELSE parts[4] \o <<".">> \o parts[3] \o <<".">> \o
              parts[2] \o <<".">> \o parts[1]

\* the conventional reverse-lookup name of a 4-byte address
ReverseName(ip) ==
    Itoa(ip[4]) \o <<".">> \o Itoa(ip[3]) \o <<".">> \o
    Itoa(ip[2]) \o <<".">> \o Itoa(ip[1]) \o InAddrArpa

----------------------------------------------------------------------------
(* Inputs *)

\* names asked of getFakeIP: three canonical names, one in three spellings
Names == {
    <<"a",".","i","o">>, <<"A",".","i","o",".">>, <<"a",".","i","o",".">>,
    <<"b",".","i","o",".">>, <<"c",".","i","o",".">> }

\* cfg.FakeSubnet, as the address and the prefix length of its text
Subnets == {
    [addr |-> <<198, 18, 0, 0>>, ones |-> 15],
    [addr |-> <<198, 18, 5, 7>>, ones |-> 15],
    [addr |-> <<10, 0, 255, 254>>, ones |-> 31],
    [addr |-> <<255, 255, 255, 254>>, ones |-> 31] }

Mapped16(ip4) == v4InV6Prefix \o ip4

\* 2001:db8::1, an address with no 4-byte form
ProbeV6 == <<32, 1, 13, 184, 0, 0, 0, 0, 0, 0, 0, 0, 0, 0, 0, 1>>

\* addresses asked of IsFakeIP: the edges of the blocks, inside and outside
MemberProbes == {
    <<198, 18, 0, 0>>, <<198, 19, 255, 255>>, Mapped16(<<198, 18, 0, 2>>),
    <<198, 20, 0, 0>>, <<198, 17, 255, 255>>,
    <<10, 0, 255, 255>>, <<10, 1, 0, 0>>, ProbeV6 }

\* addresses asked of GetDomainForIP
ProbeIPs == {
    <<198, 18, 0, 1>>, Mapped16(<<198, 18, 0, 2>>), <<198, 19, 255, 255>>,
    <<10, 1, 0, 0>>, <<0, 0, 0, 0>> }

Durations == {300}

Q(name, qtype) == [Name |-> name, Qtype |-> qtype]

\* an inbound message as the server reads it: the question count of its
\* header and the questions its body holds. A message that ends after a
\* header counting one question is unpacked with no question.
Packet(qdcount, question) == [Qdcount |-> qdcount, Question |-> question]

\* the default MsgAcceptFunc of the dns.Server that Start creates: a message
\* whose header does not count exactly one question is answered FORMERR by
\* the server and is not handed to the handler
MsgAccept(r) == r.Qdcount = 1

\* m.SetReply(r): the reply carries the first question of the request
ReplyQuestion(r) == IF Len(r.Question) > 0 THEN <<r.Question[1]>> ELSE <<>>

\* inbound messages of the FakeDNS server, by their question section
Messages == {
    Packet(0, <<>>),
    Packet(1, <<>>),
    Packet(1, <<Q(<<"b",".","i","o",".">>, "A")>>),
    Packet(1, <<Q(<<"a",".","i","o">>, "AAAA")>>),
    Packet(1, <<Q(ReverseName(<<198, 18, 0, 1>>), "PTR")>>),
    Packet(2, <<Q(<<"C",".","i","o",".">>, "A"),
                Q(ReverseName(<<10, 1, 0, 0>>), "PTR")>>) }

----------------------------------------------------------------------------
(* FakeDNSServer: construction *)

MaxStarts == 1

TTL == 60

NoCall == [op |-> "none", arg |-> <<>>, srv |-> 0]

NoLoc == [domain |-> <<>>, asked |-> <<>>, i |-> 0, answer |-> <<>>]

NoRet == [kind |-> "none", val |-> <<>>]

\* the first address of the block: the network number, incremented
StartIP(subnet) == incrementIP(subnet.IP)

\* NewFakeDNSServer, for every configured block
InitFakeDNS ==
    /\ fakeSubnet \in {ParseCIDR(c) : c \in Subnets}
    /\ nextIP = StartIP(fakeSubnet)
    /\ mappings = EmptyMap
    /\ reverseMaps = EmptyMap
    /\ ttl = TTL
    /\ running = FALSE
    /\ server = 0
    /\ listener = <<>>
    /\ mu = [w |-> 0, r |-> {}]
    /\ pc = [g \in Goroutines |-> "idle"]
    /\ call = [g \in Goroutines |-> NoCall]
    /\ loc = [g \in Goroutines |-> NoLoc]
    /\ ret = [g \in Goroutines |-> NoRet]
    /\ issued = EmptyMap
    /\ order = <<>>

----------------------------------------------------------------------------
(* sync.RWMutex *)

\* a plausible slip: getFakeIP, Start and Stop run without mutual exclusion
CanLockUnguarded == TRUE

\* mu.Lock() can return: no writer and no reader holds the lock
CanLock == mu.w = 0 /\ mu.r = {}

\* mu.RLock() can return: no writer holds the lock
CanRLock == mu.w = 0

Goto(g, label) == pc' = [pc EXCEPT ![g] = label]

\* goroutines are interchangeable: a new call runs on the first free one
Free(g) == pc[g] = "idle" /\ \A h \in Goroutines : h < g => pc[h] # "idle"

FakeState == <<fakeSubnet, mappings, reverseMaps, nextIP, ttl>>

Lifecycle == <<running, server, listener>>

History == <<issued, order>>

----------------------------------------------------------------------------
(* getFakeIP *)

CallGetFakeIP(g, d) ==
    /\ Free(g)
    /\ call' = [call EXCEPT ![g] = [op |-> "getFakeIP", arg |-> d, srv |-> 0]]
    /\ loc' = [loc EXCEPT ![g] = [NoLoc EXCEPT !.domain = d, !.asked = d]]
    /\ Goto(g, "gfi_lock")
    /\ UNCHANGED <<avars, rvars, evars, FakeState, Lifecycle, History, mu, ret>>

\* f.mu.Lock()
GetFakeIPLock(g) ==
    /\ pc[g] = "gfi_lock"
    /\ CanLock
    /\ mu' = [mu EXCEPT !.w = g]
    /\ Goto(g, "gfi_check")
    /\ UNCHANGED <<avars, rvars, evars, FakeState, Lifecycle, History, call, loc, ret>>

\* a plausible slip: the map is consulted under the name as given, and the
\* name is normalised only afterwards
GetFakeIPCheckRawKey(g) ==
    LET domain == CanonicalName(loc[g].domain) IN
    /\ pc[g] = "gfi_check"
    /\ loc' = [loc EXCEPT ![g].domain = domain]
    /\ IF MapHas(mappings, loc[g].domain)
       THEN /\ ret' = [ret EXCEPT ![g] = [kind |-> "ip", val |-> mappings[loc[g].domain]]]
            /\ Goto(g, "gfi_unlock")
       ELSE /\ ret' = ret
            /\ Goto(g, "gfi_alloc")
    /\ UNCHANGED <<avars, rvars, evars, FakeState, Lifecycle, History, mu, call>>

\* domain = dns.CanonicalName(domain); if ip, ok := f.mappings[domain]; ok
GetFakeIPCheck(g) ==
    LET domain == CanonicalName(loc[g].domain) IN
    /\ pc[g] = "gfi_check"
    /\ loc' = [loc EXCEPT ![g].domain = domain]
    /\ IF MapHas(mappings, domain)
       THEN /\ ret' = [ret EXCEPT ![g] = [kind |-> "ip", val |-> mappings[domain]]]
            /\ Goto(g, "gfi_unlock")
       ELSE /\ ret' = ret
            /\ Goto(g, "gfi_alloc")
    /\ UNCHANGED <<avars, rvars, evars, FakeState, Lifecycle, History, mu, call>>

\* a plausible slip: the cursor is advanced before the reverse entry is
\* recorded, so the reverse entry is keyed by the next address
GetFakeIPAllocReverseLate(g) ==
    LET domain == loc[g].domain
        fakeIP == nextIP
    IN
    /\ pc[g] = "gfi_alloc"
    /\ mappings' = MapSet(mappings, domain, fakeIP)
    /\ reverseMaps' = MapSet(reverseMaps, IPString(incrementIP(nextIP)), domain)
    /\ nextIP' = incrementIP(nextIP)
    /\ ret' = [ret EXCEPT ![g] = [kind |-> "ip", val |-> fakeIP]]
    /\ order' = Append(order, domain)
    /\ Goto(g, "gfi_unlock")
    /\ UNCHANGED <<avars, rvars, evars, fakeSubnet, ttl, Lifecycle, issued, mu, call, loc>>

\* the allocation: copy the cursor, record both mappings, advance the cursor
GetFakeIPAlloc(g) ==
    LET domain == loc[g].domain
        fakeIP == nextIP
    IN
    /\ pc[g] = "gfi_alloc"
    /\ mappings' = MapSet(mappings, domain, fakeIP)
    /\ reverseMaps' = MapSet(reverseMaps, IPString(fakeIP), domain)
    /\ nextIP' = incrementIP(nextIP)
    /\ ret' = [ret EXCEPT ![g] = [kind |-> "ip", val |-> fakeIP]]
    /\ order' = Append(order, domain)
    /\ Goto(g, "gfi_unlock")
    /\ UNCHANGED <<avars, rvars, evars, fakeSubnet, ttl, Lifecycle, issued, mu, call, loc>>

\* the A record handleDNS appends for question q
ARecord(q, fakeIP) ==
    [Name |-> q.Name, Rrtype |-> "A", Ttl |-> ttl, Data |-> fakeIP]

\* the deferred f.mu.Unlock() and the return, to the caller or to handleDNS
GetFakeIPReturn(g) ==
    /\ pc[g] = "gfi_unlock"
    /\ mu' = [mu EXCEPT !.w = 0]
    /\ issued' = MapSet(issued, loc[g].domain,
                        MapGet(issued, loc[g].domain, {}) \cup {ret[g].val})
    /\ IF call[g].op = "getFakeIP"
       THEN /\ Goto(g, "done")
            /\ UNCHANGED <<loc, ret>>
       ELSE /\ loc' = [loc EXCEPT
                  ![g].answer = Append(@, ARecord(call[g].arg.Question[loc[g].i],
                                                  ret[g].val)),
                  ![g].i = @ + 1]
            /\ ret' = [ret EXCEPT ![g] = NoRet]
            /\ Goto(g, "h_loop")
    /\ UNCHANGED <<avars, rvars, evars, FakeState, Lifecycle, order, call>>

----------------------------------------------------------------------------
(* Lookups *)

\* GetDomainForIP: f.mu.RLock()
CallGetDomainForIP(g, ip) ==
    /\ Free(g)
    /\ CanRLock
    /\ mu' = [mu EXCEPT !.r = @ \cup {g}]
    /\ call' = [call EXCEPT ![g] = [op |-> "GetDomainForIP", arg |-> ip, srv |-> 0]]
    /\ Goto(g, "gd_read")
    /\ UNCHANGED <<avars, rvars, evars, FakeState, Lifecycle, History, loc, ret>>

\* a caller passes the address getFakeIP gave it on to GetDomainForIP
CallGetDomainForResult(g) ==
    /\ pc[g] = "done"
    /\ call[g].op = "getFakeIP"
    /\ CanRLock
    /\ mu' = [mu EXCEPT !.r = @ \cup {g}]
    /\ call' = [call EXCEPT ![g] =
                  [op |-> "GetDomainForIP", arg |-> ret[g].val, srv |-> 0]]
    /\ ret' = [ret EXCEPT ![g] = NoRet]
    /\ Goto(g, "gd_read")
    /\ UNCHANGED <<avars, rvars, evars, FakeState, Lifecycle, History, loc>>

\* GetDomainForIP: return f.reverseMaps[ip.String()], and the deferred RUnlock
GetDomainForIPRead(g) ==
    /\ pc[g] = "gd_read"
    /\ ret' = [ret EXCEPT ![g] =
                 [kind |-> "domain",
                  val |-> MapGet(reverseMaps, IPString(call[g].arg), <<>>)]]
    /\ mu' = [mu EXCEPT !.r = @ \ {g}]
    /\ Goto(g, "done")
    /\ UNCHANGED <<avars, rvars, evars, FakeState, Lifecycle, History, call, loc>>

\* GetMappingCount: f.mu.RLock()
CallGetMappingCount(g) ==
    /\ Free(g)
    /\ CanRLock
    /\ mu' = [mu EXCEPT !.r = @ \cup {g}]
    /\ call' = [call EXCEPT ![g] = [op |-> "GetMappingCount", arg |-> <<>>, srv |-> 0]]
    /\ Goto(g, "mc_read")
    /\ UNCHANGED <<avars, rvars, evars, FakeState, Lifecycle, History, loc, ret>>

\* GetMappingCount: return len(f.mappings), and the deferred RUnlock
GetMappingCountRead(g) ==
    /\ pc[g] = "mc_read"
    /\ ret' = [ret EXCEPT ![g] =
                 [kind |-> "count", val |-> Cardinality(DOMAIN mappings)]]
    /\ mu' = [mu EXCEPT !.r = @ \ {g}]
    /\ Goto(g, "done")
    /\ UNCHANGED <<avars, rvars, evars, FakeState, Lifecycle, History, call, loc>>

\* IsFakeIP: f.fakeSubnet.Contains(ip), without the lock
IsFakeIP(g, ip) ==
    /\ Free(g)
    /\ call' = [call EXCEPT ![g] = [op |-> "IsFakeIP", arg |-> ip, srv |-> 0]]
    /\ ret' = [ret EXCEPT ![g] = [kind |-> "bool", val |-> Contains(fakeSubnet, ip)]]
    /\ Goto(g, "done")
    /\ UNCHANGED <<avars, rvars, evars, FakeState, Lifecycle, History, mu, loc>>

\* a plausible slip: the placeholder is filled in and drops every mapping
CleanupOldMappingsEvicts(g, maxAge) ==
    /\ Free(g)
    /\ call' = [call EXCEPT ![g] = [op |-> "CleanupOldMappings", arg |-> maxAge, srv |-> 0]]
    /\ mappings' = EmptyMap
    /\ reverseMaps' = EmptyMap
    /\ Goto(g, "done")
    /\ UNCHANGED <<avars, rvars, evars, fakeSubnet, nextIP, ttl, Lifecycle, History, mu, loc, ret>>

\* CleanupOldMappings: a placeholder with an empty body
CleanupOldMappings(g, maxAge) ==
    /\ Free(g)
    /\ call' = [call EXCEPT ![g] = [op |-> "CleanupOldMappings", arg |-> maxAge, srv |-> 0]]
    /\ Goto(g, "done")
    /\ UNCHANGED <<avars, rvars, evars, FakeState, Lifecycle, History, mu, loc, ret>>

\* the caller takes the result and is free for its next call
Return(g) ==
    /\ pc[g] = "done"
    /\ call' = [call EXCEPT ![g] = NoCall]
    /\ loc' = [loc EXCEPT ![g] = NoLoc]
    /\ ret' = [ret EXCEPT ![g] = NoRet]
    /\ Goto(g, "idle")
    /\ UNCHANGED <<avars, rvars, evars, FakeState, Lifecycle, History, mu>>

----------------------------------------------------------------------------
(* Start, Stop and the dns.Server they own *)

NilError == [kind |-> "error", val |-> "nil"]

AlreadyRunning == [kind |-> "error", val |-> "FakeDNS already running"]

\* Start: f.mu.Lock() (a new dns.Server is created at most MaxStarts times)
CallStart(g) ==
    /\ Free(g)
    /\ CanLock
    /\ running \/ Len(listener) < MaxStarts
    /\ mu' = [mu EXCEPT !.w = g]
    /\ call' = [call EXCEPT ![g] = [op |-> "Start", arg |-> <<>>, srv |-> 0]]
    /\ Goto(g, "st_body")
    /\ UNCHANGED <<avars, rvars, evars, FakeState, Lifecycle, History, loc, ret>>

\* Start: the body and the deferred Unlock
StartBody(g) ==
    /\ pc[g] = "st_body"
    /\ IF running
       THEN /\ ret' = [ret EXCEPT ![g] = AlreadyRunning]
            /\ UNCHANGED Lifecycle
       ELSE /\ server' = Len(listener) + 1
            /\ listener' = Append(listener, "pending")
            /\ running' = TRUE
            /\ ret' = [ret EXCEPT ![g] = NilError]
    /\ mu' = [mu EXCEPT !.w = 0]
    /\ Goto(g, "done")
    /\ UNCHANGED <<avars, rvars, evars, FakeState, History, call, loc>>

PortBusy == \E s \in 1..Len(listener) : listener[s] \in {"serving", "stopping"}

\* the goroutine Start launches: f.server.ListenAndServe() binds the port and
\* serves, or fails to bind (the error is only logged)
ListenAndServe(s, bindOk) ==
    /\ s \in 1..Len(listener)
    /\ listener[s] = "pending"
    /\ listener' = [listener EXCEPT ![s] =
                      IF bindOk /\ ~PortBusy THEN "serving" ELSE "failed"]
    /\ UNCHANGED <<avars, rvars, evars, FakeState, running, server, History, mu, pc, call, loc, ret>>

\* Stop: f.mu.Lock()
CallStop(g) ==
    /\ Free(g)
    /\ CanLock
    /\ mu' = [mu EXCEPT !.w = g]
    /\ call' = [call EXCEPT ![g] = [op |-> "Stop", arg |-> <<>>, srv |-> 0]]
    /\ Goto(g, "sp_body")
    /\ UNCHANGED <<avars, rvars, evars, FakeState, Lifecycle, History, loc, ret>>

\* Stop: not running, or f.server.Shutdown() on a server that is serving (it
\* stops accepting and Shutdown waits) or is not (Shutdown returns at once)
StopBody(g) ==
    /\ pc[g] = "sp_body"
    /\ IF ~running
       THEN /\ ret' = [ret EXCEPT ![g] = NilError]
            /\ mu' = [mu EXCEPT !.w = 0]
            /\ Goto(g, "done")
            /\ UNCHANGED Lifecycle
       ELSE IF server # 0 /\ listener[server] = "serving"
       THEN /\ listener' = [listener EXCEPT ![server] = "stopping"]
            /\ Goto(g, "sp_wait")
            /\ UNCHANGED <<running, server, mu, ret>>
       ELSE /\ running' = FALSE
            /\ ret' = [ret EXCEPT ![g] = NilError]
            /\ mu' = [mu EXCEPT !.w = 0]
            /\ Goto(g, "done")
            /\ UNCHANGED <<server, listener>>
    /\ UNCHANGED <<avars, rvars, evars, FakeState, History, call, loc>>

InFlight(s) ==
    {h \in Goroutines : call[h].op = "handleDNS" /\ call[h].srv = s /\ pc[h] # "done"}

\* Stop: Shutdown returns once the serving loop and its handlers have ended;
\* then f.running = false and the deferred Unlock
StopWait(g) ==
    /\ pc[g] = "sp_wait"
    /\ InFlight(server) = {}
    /\ listener' = [listener EXCEPT ![server] = "closed"]
    /\ running' = FALSE
    /\ ret' = [ret EXCEPT ![g] = NilError]
    /\ mu' = [mu EXCEPT !.w = 0]
    /\ Goto(g, "done")
    /\ UNCHANGED <<avars, rvars, evars, FakeState, server, History, call, loc>>

----------------------------------------------------------------------------
(* FakeDNSServer.handleDNS *)

\* getReverseDomain, under the read lock
getReverseDomain(ptrName) ==
    LET ip == ptrToIP(ptrName) IN
    IF ip = <<>> THEN <<>> ELSE MapGet(reverseMaps, ip, <<>>)

PTRRecord(q, domain) ==
    [Name |-> q.Name, Rrtype |-> "PTR", Ttl |-> ttl, Data |-> domain]

\* the reply of the server itself to a message it does not accept
FormatError ==
    [Rcode |-> "FORMERR", Authoritative |-> FALSE, Question |-> <<>>, Answer |-> <<>>]

\* the serving loop reads a message on a goroutine of its own: a message it
\* accepts is handed to the handler, any other is answered FORMERR there
HandleDNS(g, s, r) ==
    /\ Free(g)
    /\ s \in 1..Len(listener)
    /\ listener[s] = "serving"
    /\ IF MsgAccept(r)
       THEN /\ call' = [call EXCEPT ![g] = [op |-> "handleDNS", arg |-> r, srv |-> s]]
            /\ loc' = [loc EXCEPT ![g] = [NoLoc EXCEPT !.i = 1]]
            /\ ret' = ret
            /\ Goto(g, "h_loop")
       ELSE /\ call' = [call EXCEPT ![g] = [op |-> "serveDNS", arg |-> r, srv |-> s]]
            /\ loc' = loc
            /\ ret' = [ret EXCEPT ![g] = [kind |-> "msg", val |-> FormatError]]
            /\ Goto(g, "done")
    /\ UNCHANGED <<avars, rvars, evars, FakeState, Lifecycle, History, mu>>

AtQuestion(g) ==
    /\ pc[g] = "h_loop"
    /\ loc[g].i <= Len(call[g].arg.Question)

ThisQuestion(g) == call[g].arg.Question[loc[g].i]

\* case dns.TypeA: fakeIP := f.getFakeIP(q.Name)
HandleA(g) ==
    /\ AtQuestion(g)
    /\ ThisQuestion(g).Qtype = "A"
    /\ loc' = [loc EXCEPT ![g].domain = ThisQuestion(g).Name]
    /\ Goto(g, "gfi_lock")
    /\ UNCHANGED <<avars, rvars, evars, FakeState, Lifecycle, History, mu, call, ret>>

\* case dns.TypePTR: domain := f.getReverseDomain(q.Name)
HandlePTR(g) ==
    /\ AtQuestion(g)
    /\ ThisQuestion(g).Qtype = "PTR"
    /\ CanRLock
    /\ LET domain == getReverseDomain(ThisQuestion(g).Name) IN
       loc' = [loc EXCEPT
                 ![g].answer = IF domain # <<>>
                               THEN Append(@, PTRRecord(ThisQuestion(g), domain))
                               ELSE @,
                 ![g].i = @ + 1]
    /\ UNCHANGED <<avars, rvars, evars, FakeState, Lifecycle, History, mu, pc, call, ret>>

\* a plausible slip: an AAAA question is treated as an A question is
HandleOtherAsA(g) ==
    /\ AtQuestion(g)
    /\ ThisQuestion(g).Qtype \notin {"A", "PTR"}
    /\ loc' = [loc EXCEPT ![g].domain = ThisQuestion(g).Name]
    /\ Goto(g, "gfi_lock")
    /\ UNCHANGED <<avars, rvars, evars, FakeState, Lifecycle, History, mu, call, ret>>

\* case dns.TypeAAAA, and every other type: no record is added
HandleOther(g) ==
    /\ AtQuestion(g)
    /\ ThisQuestion(g).Qtype \notin {"A", "PTR"}
    /\ loc' = [loc EXCEPT ![g].i = @ + 1]
    /\ UNCHANGED <<avars, rvars, evars, FakeState, Lifecycle, History, mu, pc, call, ret>>

\* w.WriteMsg(m): m is the reply SetReply built, with the answers appended
HandleWrite(g) ==
    /\ pc[g] = "h_loop"
    /\ loc[g].i > Len(call[g].arg.Question)
    /\ ret' = [ret EXCEPT ![g] =
                 [kind |-> "msg",
                  val |-> [Rcode |-> "NOERROR", Authoritative |-> TRUE,
                           Question |-> ReplyQuestion(call[g].arg),
                           Answer |-> loc[g].answer]]]
    /\ Goto(g, "done")
    /\ UNCHANGED <<avars, rvars, evars, FakeState, Lifecycle, History, mu, call, loc>>

----------------------------------------------------------------------------
(* DNSResolver: construction *)

MaxClock == 6

MaxQueries == 2

\* dnsCache.maxAge, in minutes
CacheMaxAge == 5

DefaultDNSPort == 5353

\* torCfg.DNSPort: the default and another port (port 53 is the loopback
\* resolver's and is not an anonymizer port here)
DNSPorts == {DefaultDNSPort, 9053}

SystemResolver == "127.0.0.53:53"

LoopbackResolver == "127.0.0.1:53"

Fallback == "9.9.9.9:53"

NilBypass == [IsNil |-> TRUE, Enabled |-> FALSE, Domains |-> <<>>]

BypassDomains == << <<"*",".","l","a","n">>, <<"e","x",".","c","o","m">> >>

\* the bypass configurations: none, disabled, enabled
BypassConfigs == {
    NilBypass,
    [IsNil |-> FALSE, Enabled |-> FALSE, Domains |-> BypassDomains],
    [IsNil |-> FALSE, Enabled |-> TRUE, Domains |-> BypassDomains] }

\* an inbound message with the question count of its header
Msg(id, question) == [Id |-> id, Qdcount |-> Len(question), Question |-> question]

\* a message that ends after a header counting one question
HeaderOnly(id) == [Id |-> id, Qdcount |-> 1, Question |-> <<>>]

\* inbound messages of the resolver
Requests == {
    HeaderOnly(1),
    Msg(1, <<Q(<<"p","c",".","l","a","n",".">>, "A")>>),
    Msg(2, <<Q(<<"l","a","n">>, "A")>>),
    Msg(2, <<Q(<<"e","x",".","c","o","m",".">>, "A")>>),
    Msg(1, <<Q(<<"a",".","e","x",".","c","o","m",".">>, "A")>>),
    Msg(2, <<Q(<<"a",".","e","x",".","c","o","m",".">>, "A")>>),
    Msg(1, <<Q(<<"P","C",".","L","A","N",".">>, "AAAA")>>),
    Msg(2, <<Q(<<"a",".","e","x",".","c","o","m",".">>, "A"), Q(<<"p","c",".","l","a","n",".">>, "A")>>) }

\* what an exchange with a resolver gives: a transport error or timeout, or a
\* response with this code
Outcomes == {"err", "NOERROR", "NXDOMAIN"}

NoMsg == [Id |-> 0, Rcode |-> "none", Question |-> <<>>, Origin |-> "none"]

\* NewDNSResolver(torCfg, bypassCfg)
InitResolverWith(port, bcfg) ==
    /\ bypassCfg = bcfg
    /\ torUpstream = "127.0.0.1:" \o ToString(port)
    /\ cache = EmptyMap
    /\ now = 0
    /\ rpc = [g \in Goroutines |-> "idle"]
    /\ req = [g \in Goroutines |-> NoMsg]
    /\ reply = [g \in Goroutines |-> <<>>]
    /\ sentTo = [g \in Goroutines |-> <<>>]
    /\ cacheOps = [g \in Goroutines |-> <<>>]
    /\ served = 0
    /\ rrunning = FALSE
    /\ rserver = 0
    /\ rlistener = <<>>
    /\ rmu = 0

----------------------------------------------------------------------------
(* DNSResolver: the bypass check and the cache *)

\* matchDomain: "*.suffix" matches names ending in ".suffix" and the bare
\* suffix; any other pattern matches itself only
matchDomain(pattern, domain) ==
    IF HasPrefix(pattern, <<"*", ".">>)
    THEN \/ HasSuffix(domain, SubSeq(pattern, 2, Len(pattern)))
         \/ domain = SubSeq(pattern, 3, Len(pattern))
    ELSE pattern = domain

\* shouldBypass
shouldBypass(domain) ==
    /\ ~bypassCfg.IsNil
    /\ bypassCfg.Enabled
    /\ \E i \in 1..Len(bypassCfg.Domains) : matchDomain(bypassCfg.Domains[i], domain)

\* the key fmt.Sprintf("%s:%d", domain, qtype) stands for
CacheKey(domain, qtype) == <<domain, qtype>>

\* a plausible slip: the entry's age is not looked at
cacheGetNoExpiry(domain, qtype) ==
    LET key == CacheKey(domain, qtype) IN
    IF ~MapHas(cache, key) THEN NoMsg ELSE cache[key].response

\* dnsCache.get: the entry's response unless absent or older than maxAge
cacheGet(domain, qtype) ==
    LET key == CacheKey(domain, qtype) IN
    IF ~MapHas(cache, key) THEN NoMsg
    ELSE IF now - cache[key].timestamp > CacheMaxAge THEN NoMsg
    ELSE cache[key].response

\* dnsCache.set
cacheSet(domain, qtype, msg) ==
    MapSet(cache, CacheKey(domain, qtype), [response |-> msg, timestamp |-> now])

\* question := req.Question[0]; domain := strings.TrimSuffix(question.Name, ".")
QueryDomain(r) == TrimSuffix(r.Question[1].Name, <<".">>)

QueryType(r) == r.Question[1].Qtype

\* m.SetRcode(req, rcode): a reply made by the resolver itself
SetRcode(r, rcode) ==
    [Id |-> r.Id, Rcode |-> rcode, Question |-> ReplyQuestion(r), Origin |-> "resolver"]

\* the response a resolver at address addr gives to r
Response(r, rcode, addr) ==
    [Id |-> r.Id, Rcode |-> rcode, Question |-> r.Question, Origin |-> addr]

Sent(addr, outcome) == [to |-> addr, outcome |-> outcome]

RGoto(g, label) == rpc' = [rpc EXCEPT ![g] = label]

\* query tasks are interchangeable: a new query runs on the first free one
RFree(g) == rpc[g] = "idle" /\ \A h \in Goroutines : h < g => rpc[h] # "idle"

Write(g, m) == reply' = [reply EXCEPT ![g] = Append(@, m)]

----------------------------------------------------------------------------
(* DNSResolver.handleDNS *)

\* the server has no Handler of its own: handleDNS is registered for "." on
\* the default ServeMux, which looks a handler up for the first question of
\* an accepted message and finds none for a message without a question
HandlerFound(r) == MsgAccept(r) /\ Len(r.Question) >= 1

\* the reply of the library itself: FORMERR from the server to a message it
\* does not accept, of which it has read the header only, and REFUSED from
\* the ServeMux to an accepted message without a question
Rejection(r) ==
    [Id |-> r.Id, Rcode |-> IF MsgAccept(r) THEN "REFUSED" ELSE "FORMERR",
     Question |-> <<>>, Origin |-> "server"]

\* the server's reading of a message and handleDNS up to the bypass check: a
\* message for which no handler is found is answered by the library; the
\* others reach handleDNS, whose own answer to a message without a question
\* (dns.HandleFailed) no message from the server can call for, and go to
\* resolveBypass or the cache
Receive(g, r) ==
    /\ RFree(g)
    /\ served < MaxQueries
    /\ served' = served + 1
    /\ req' = [req EXCEPT ![g] = IF MsgAccept(r) THEN r ELSE [r EXCEPT !.Question = <<>>]]
    /\ IF ~HandlerFound(r)
       THEN /\ Write(g, Rejection(r))
            /\ RGoto(g, "rejected")
       ELSE IF Len(r.Question) = 0
       THEN /\ Write(g, SetRcode(r, "SERVFAIL"))
            /\ RGoto(g, "done")
       ELSE /\ reply' = reply
            /\ IF shouldBypass(QueryDomain(r))
               THEN RGoto(g, "bypass_system")
               ELSE RGoto(g, "cache_get")
    /\ UNCHANGED <<avars, fvars, evars, rlife, bypassCfg, torUpstream, cache, now, sentTo, cacheOps>>

\* the cache check: a hit is written with the request's Id
CacheLookup(g) ==
    LET cached == cacheGet(QueryDomain(req[g]), QueryType(req[g])) IN
    /\ rpc[g] = "cache_get"
    /\ cacheOps' = [cacheOps EXCEPT ![g] = Append(@, "get")]
    /\ IF cached # NoMsg
       THEN /\ Write(g, [cached EXCEPT !.Id = req[g].Id])
            /\ RGoto(g, "done")
       ELSE /\ reply' = reply
            /\ RGoto(g, "tor_exchange")
    /\ UNCHANGED <<avars, fvars, evars, rlife, bypassCfg, torUpstream, cache, now, req, sentTo, served>>

\* a plausible slip: when the anonymizer fails the query is retried at the
\* configured fallback resolver
resolveTorFallsBack(g, outcome) ==
    /\ rpc[g] = "tor_exchange"
    /\ IF outcome = "err"
       THEN /\ sentTo' = [sentTo EXCEPT ![g] =
                            @ \o <<Sent(torUpstream, outcome), Sent(Fallback, "NOERROR")>>]
            /\ Write(g, Response(req[g], "NOERROR", Fallback))
            /\ UNCHANGED <<cache, cacheOps>>
       ELSE /\ sentTo' = [sentTo EXCEPT ![g] = Append(@, Sent(torUpstream, outcome))]
            /\ Write(g, Response(req[g], outcome, torUpstream))
            /\ UNCHANGED <<cache, cacheOps>>
    /\ RGoto(g, "done")
    /\ UNCHANGED <<avars, fvars, evars, rlife, bypassCfg, torUpstream, now, req, served>>

\* a plausible slip: the error branch lacks its return, and the reply is
\* written a second time after the SERVFAIL
resolveTorNoReturn(g, outcome) ==
    /\ rpc[g] = "tor_exchange"
    /\ sentTo' = [sentTo EXCEPT ![g] = Append(@, Sent(torUpstream, outcome))]
    /\ IF outcome = "err"
       THEN /\ reply' = [reply EXCEPT ![g] = @ \o <<SetRcode(req[g], "SERVFAIL"),
                                                     SetRcode(req[g], "SERVFAIL")>>]
            /\ UNCHANGED <<cache, cacheOps>>
       ELSE /\ IF outcome = "NOERROR"
               THEN /\ cache' = cacheSet(QueryDomain(req[g]), QueryType(req[g]),
                                         Response(req[g], outcome, torUpstream))
                    /\ cacheOps' = [cacheOps EXCEPT ![g] = Append(@, "set")]
               ELSE UNCHANGED <<cache, cacheOps>>
            /\ Write(g, Response(req[g], outcome, torUpstream))
    /\ RGoto(g, "done")
    /\ UNCHANGED <<avars, fvars, evars, rlife, bypassCfg, torUpstream, now, req, served>>

\* a plausible slip: every response of the anonymizer is cached, whatever
\* its code
resolveTorCachesAnyCode(g, outcome) ==
    /\ rpc[g] = "tor_exchange"
    /\ sentTo' = [sentTo EXCEPT ![g] = Append(@, Sent(torUpstream, outcome))]
    /\ IF outcome = "err"
       THEN /\ Write(g, SetRcode(req[g], "SERVFAIL"))
            /\ UNCHANGED <<cache, cacheOps>>
       ELSE /\ cache' = cacheSet(QueryDomain(req[g]), QueryType(req[g]),
                                 Response(req[g], outcome, torUpstream))
            /\ cacheOps' = [cacheOps EXCEPT ![g] = Append(@, "set")]
            /\ Write(g, Response(req[g], outcome, torUpstream))
    /\ RGoto(g, "done")
    /\ UNCHANGED <<avars, fvars, evars, rlife, bypassCfg, torUpstream, now, req, served>>

\* resolveTor: the exchange with the anonymizer's resolver; SERVFAIL when it
\* fails, else the response, cached first when its code is success
resolveTor(g, outcome) ==
    /\ rpc[g] = "tor_exchange"
    /\ sentTo' = [sentTo EXCEPT ![g] = Append(@, Sent(torUpstream, outcome))]
    /\ IF outcome = "err"
       THEN /\ Write(g, SetRcode(req[g], "SERVFAIL"))
            /\ UNCHANGED <<cache, cacheOps>>
       ELSE /\ IF outcome = "NOERROR"
               THEN /\ cache' = cacheSet(QueryDomain(req[g]), QueryType(req[g]),
                                         Response(req[g], outcome, torUpstream))
                    /\ cacheOps' = [cacheOps EXCEPT ![g] = Append(@, "set")]
               ELSE UNCHANGED <<cache, cacheOps>>
            /\ Write(g, Response(req[g], outcome, torUpstream))
    /\ RGoto(g, "done")
    /\ UNCHANGED <<avars, fvars, evars, rlife, bypassCfg, torUpstream, now, req, served>>

\* a plausible slip: the loopback resolver is also tried when the system
\* resolver answers with a code other than success
resolveBypassSystemRetriesOnCode(g, outcome) ==
    /\ rpc[g] = "bypass_system"
    /\ sentTo' = [sentTo EXCEPT ![g] = Append(@, Sent(SystemResolver, outcome))]
    /\ IF outcome # "NOERROR"
       THEN /\ reply' = reply
            /\ RGoto(g, "bypass_loopback")
       ELSE /\ Write(g, Response(req[g], outcome, SystemResolver))
            /\ RGoto(g, "done")
    /\ UNCHANGED <<avars, fvars, evars, rlife, bypassCfg, torUpstream, cache, now, req, cacheOps, served>>

\* resolveBypass: the exchange with the system resolver
resolveBypassSystem(g, outcome) ==
    /\ rpc[g] = "bypass_system"
    /\ sentTo' = [sentTo EXCEPT ![g] = Append(@, Sent(SystemResolver, outcome))]
    /\ IF outcome = "err"
       THEN /\ reply' = reply
            /\ RGoto(g, "bypass_loopback")
       ELSE /\ Write(g, Response(req[g], outcome, SystemResolver))
            /\ RGoto(g, "done")
    /\ UNCHANGED <<avars, fvars, evars, rlife, bypassCfg, torUpstream, cache, now, req, cacheOps, served>>

\* a plausible slip: when both local resolvers fail the query falls through
\* to the anonymizer
resolveBypassFallsThrough(g, outcome) ==
    /\ rpc[g] = "bypass_loopback"
    /\ sentTo' = [sentTo EXCEPT ![g] = Append(@, Sent(LoopbackResolver, outcome))]
    /\ IF outcome = "err"
       THEN /\ reply' = reply
            /\ RGoto(g, "tor_exchange")
       ELSE /\ Write(g, Response(req[g], outcome, LoopbackResolver))
            /\ RGoto(g, "done")
    /\ UNCHANGED <<avars, fvars, evars, rlife, bypassCfg, torUpstream, cache, now, req, cacheOps, served>>

\* resolveBypass: the exchange with the loopback resolver; NXDOMAIN when it
\* fails too
resolveBypassLoopback(g, outcome) ==
    /\ rpc[g] = "bypass_loopback"
    /\ sentTo' = [sentTo EXCEPT ![g] = Append(@, Sent(LoopbackResolver, outcome))]
    /\ IF outcome = "err"
       THEN Write(g, SetRcode(req[g], "NXDOMAIN"))
       ELSE Write(g, Response(req[g], outcome, LoopbackResolver))
    /\ RGoto(g, "done")
    /\ UNCHANGED <<avars, fvars, evars, rlife, bypassCfg, torUpstream, cache, now, req, cacheOps, served>>

\* the steps a query on task g can take on its way to its reply
QueryStep(g) ==
    \/ CacheLookup(g)
    \/ \E outcome \in Outcomes : resolveTor(g, outcome)
    \/ \E outcome \in Outcomes : resolveBypassSystem(g, outcome)
    \/ \E outcome \in Outcomes : resolveBypassLoopback(g, outcome)

\* the handler has returned, or the server has answered for it; the task is
\* free for the next query
Finish(g) ==
    /\ rpc[g] \in {"done", "rejected"}
    /\ req' = [req EXCEPT ![g] = NoMsg]
    /\ reply' = [reply EXCEPT ![g] = <<>>]
    /\ sentTo' = [sentTo EXCEPT ![g] = <<>>]
    /\ cacheOps' = [cacheOps EXCEPT ![g] = <<>>]
    /\ RGoto(g, "idle")
    /\ UNCHANGED <<avars, fvars, evars, rlife, bypassCfg, torUpstream, cache, now, served>>

\* a minute passes
Tick ==
    /\ now < MaxClock
    /\ now' = now + 1
    /\ UNCHANGED <<avars, fvars, evars, rlife, bypassCfg, torUpstream, cache, rpc, req, reply, sentTo,
                   cacheOps, served>>

----------------------------------------------------------------------------
(* DNSResolver.Start, DNSResolver.Stop and the dns.Server they own *)

ResolverState == <<bypassCfg, torUpstream, cache, now, rpc, req, reply, sentTo,
                   cacheOps, served>>

ResolverAlreadyRunning == [kind |-> "error", val |-> "DNS resolver already running"]

\* Start: r.mu.Lock() (a new dns.Server is created at most MaxStarts times)
ResolverCallStart(g) ==
    /\ Free(g)
    /\ rmu = 0
    /\ rrunning \/ Len(rlistener) < MaxStarts
    /\ rmu' = g
    /\ call' = [call EXCEPT ![g] = [op |-> "ResolverStart", arg |-> <<>>, srv |-> 0]]
    /\ Goto(g, "rst_body")
    /\ UNCHANGED <<avars, evars, ResolverState, FakeState, Lifecycle, History, mu, loc, ret,
                   rrunning, rserver, rlistener>>

\* a plausible slip: Start does not look at r.running
ResolverStartBodyUnchecked(g) ==
    /\ pc[g] = "rst_body"
    /\ Len(rlistener) < MaxStarts + 1
    /\ rserver' = Len(rlistener) + 1
    /\ rlistener' = Append(rlistener, "pending")
    /\ rrunning' = TRUE
    /\ ret' = [ret EXCEPT ![g] = NilError]
    /\ rmu' = 0
    /\ Goto(g, "done")
    /\ UNCHANGED <<avars, evars, ResolverState, FakeState, Lifecycle, History, mu, call, loc>>

\* Start: the body and the deferred Unlock
ResolverStartBody(g) ==
    /\ pc[g] = "rst_body"
    /\ IF rrunning
       THEN /\ ret' = [ret EXCEPT ![g] = ResolverAlreadyRunning]
            /\ UNCHANGED <<rrunning, rserver, rlistener>>
       ELSE /\ rserver' = Len(rlistener) + 1
            /\ rlistener' = Append(rlistener, "pending")
            /\ rrunning' = TRUE
            /\ ret' = [ret EXCEPT ![g] = NilError]
    /\ rmu' = 0
    /\ Goto(g, "done")
    /\ UNCHANGED <<avars, evars, ResolverState, FakeState, Lifecycle, History, mu, call, loc>>

ResolverPortBusy ==
    \E s \in 1..Len(rlistener) : rlistener[s] \in {"serving", "stopping"}

\* the goroutine Start launches: r.server.ListenAndServe() binds the port and
\* serves, or fails to bind (the error is only logged)
ResolverListenAndServe(s, bindOk) ==
    /\ s \in 1..Len(rlistener)
    /\ rlistener[s] = "pending"
    /\ rlistener' = [rlistener EXCEPT ![s] =
                        IF bindOk /\ ~ResolverPortBusy THEN "serving" ELSE "failed"]
    /\ UNCHANGED <<avars, fvars, evars, ResolverState, rrunning, rserver, rmu>>

\* Stop: r.mu.Lock()
ResolverCallStop(g) ==
    /\ Free(g)
    /\ rmu = 0
    /\ rmu' = g
    /\ call' = [call EXCEPT ![g] = [op |-> "ResolverStop", arg |-> <<>>, srv |-> 0]]
    /\ Goto(g, "rsp_body")
    /\ UNCHANGED <<avars, evars, ResolverState, FakeState, Lifecycle, History, mu, loc, ret,
                   rrunning, rserver, rlistener>>

\* Stop: not running, or r.server.Shutdown() on a server that is serving (it
\* stops accepting and Shutdown waits) or is not (Shutdown returns at once)
ResolverStopBody(g) ==
    /\ pc[g] = "rsp_body"
    /\ IF ~rrunning
       THEN /\ ret' = [ret EXCEPT ![g] = NilError]
            /\ rmu' = 0
            /\ Goto(g, "done")
            /\ UNCHANGED <<rrunning, rserver, rlistener>>
       ELSE IF rserver # 0 /\ rlistener[rserver] = "serving"
       THEN /\ rlistener' = [rlistener EXCEPT ![rserver] = "stopping"]
            /\ Goto(g, "rsp_wait")
            /\ UNCHANGED <<rrunning, rserver, rmu, ret>>
       ELSE /\ rrunning' = FALSE
            /\ ret' = [ret EXCEPT ![g] = NilError]
            /\ rmu' = 0
            /\ Goto(g, "done")
            /\ UNCHANGED <<rserver, rlistener>>
    /\ UNCHANGED <<avars, evars, ResolverState, FakeState, Lifecycle, History, mu, call, loc>>

\* the query tasks whose handler has not returned
ResolverInFlight == {t \in Goroutines : rpc[t] \notin {"idle", "done", "rejected"}}

\* Stop: Shutdown returns once the serving loop and its handlers have ended;
\* then r.running = false and the deferred Unlock
ResolverStopWait(g) ==
    /\ pc[g] = "rsp_wait"
    /\ ResolverInFlight = {}
    /\ rlistener' = [rlistener EXCEPT ![rserver] = "closed"]
    /\ rrunning' = FALSE
    /\ ret' = [ret EXCEPT ![g] = NilError]
    /\ rmu' = 0
    /\ Goto(g, "done")
    /\ UNCHANGED <<avars, evars, ResolverState, FakeState, Lifecycle, History, mu, call, loc,
                   rserver>>

\* the serving loop of a server that is serving hands a message to handleDNS
Serve(t, r) ==
    /\ \E s \in 1..Len(rlistener) : rlistener[s] = "serving"
    /\ Receive(t, r)

----------------------------------------------------------------------------
(* Glob patterns and the regular expressions they compile to *)

Backslash == "\\"

Newline == "\n"

\* the characters compileGlobToRegex escapes with a backslash
EscapedRunes == {"[", "]", "(", ")", "{", "}", "^", "$", "+", "|", Backslash}

\* a plausible slip: the dot of a pattern is left to mean any character
GlobRuneDotUnescaped(c) ==
    IF c = "*" THEN <<".", "*">>
    ELSE IF c = "?" THEN <<".">>
    ELSE IF c \in EscapedRunes THEN <<Backslash, c>>
    ELSE <<c>>

\* the switch of compileGlobToRegex: what one pattern character is written as
GlobRune(c) ==
    IF c = "*" THEN <<".", "*">>
    ELSE IF c = "?" THEN <<".">>
    ELSE IF c = "." THEN <<Backslash, ".">>
    ELSE IF c \in EscapedRunes THEN <<Backslash, c>>
    ELSE <<c>>

RECURSIVE GlobBody(_, _)
GlobBody(pattern, i) ==
    IF i > Len(pattern) THEN <<>>
    ELSE GlobRune(pattern[i]) \o GlobBody(pattern, i + 1)

\* a plausible slip: the expression is not anchored at its end
GlobToRegexTextOpenEnd(pattern) == <<"^">> \o GlobBody(pattern, 1)

\* the text compileGlobToRegex hands to regexp.Compile
GlobToRegexText(pattern) == <<"^">> \o GlobBody(pattern, 1) \o <<"$">>

ReError == <<[k |-> "err", c |-> "", star |-> FALSE]>>

ReAtom(k, c) == [k |-> k, c |-> c, star |-> FALSE]

\* regexp.Compile on expressions made of ^, $, ., escaped characters, plain
\* characters and the postfix star: the parsed expression, or ReError for a
\* star with nothing to repeat and for a trailing backslash
RECURSIVE ReParse(_, _, _)
ReParse(text, i, acc) ==
    IF i > Len(text) THEN acc
    ELSE IF text[i] = "^" THEN ReParse(text, i + 1, Append(acc, ReAtom("bol", "")))
    ELSE IF text[i] = "$" THEN ReParse(text, i + 1, Append(acc, ReAtom("eol", "")))
    ELSE IF text[i] = "." THEN ReParse(text, i + 1, Append(acc, ReAtom("any", "")))
    ELSE IF text[i] = Backslash
    THEN IF i + 1 > Len(text) THEN ReError
         ELSE ReParse(text, i + 2, Append(acc, ReAtom("lit", text[i + 1])))
    ELSE IF text[i] = "*"
    THEN IF Len(acc) = 0 \/ acc[Len(acc)].k \notin {"any", "lit"} \/ acc[Len(acc)].star
         THEN ReError
         ELSE ReParse(text, i + 1, [acc EXCEPT ![Len(acc)].star = TRUE])
    ELSE ReParse(text, i + 1, Append(acc, ReAtom("lit", text[i])))

\* regexp.Compile: [re, err], re holding the text and the parsed expression
Compile(text) ==
    LET prog == ReParse(text, 1, <<>>) IN
    IF prog = ReError
    THEN [re |-> [text |-> text, prog |-> <<>>], err |-> TRUE]
    ELSE [re |-> [text |-> text, prog |-> prog], err |-> FALSE]

\* compileGlobToRegex
compileGlobToRegex(pattern) == Compile(GlobToRegexText(pattern))

\* one character against one atom: the dot is any character but a newline
AtomMatches(atom, c) ==
    IF atom.k = "any" THEN c # Newline ELSE c = atom.c

\* the expression from atom i on matches s from position j on
RECURSIVE MatchHere(_, _, _, _)
MatchHere(re, i, s, j) ==
    IF i > Len(re) THEN TRUE
    ELSE IF re[i].k = "bol" THEN j = 1 /\ MatchHere(re, i + 1, s, j)
    ELSE IF re[i].k = "eol" THEN j = Len(s) + 1 /\ MatchHere(re, i + 1, s, j)
    ELSE IF re[i].star
    THEN \E k \in j..(Len(s) + 1) :
             /\ \A m \in j..(k - 1) : AtomMatches(re[i], s[m])
             /\ MatchHere(re, i + 1, s, k)
    ELSE /\ j <= Len(s)
         /\ AtomMatches(re[i], s[j])
         /\ MatchHere(re, i + 1, s, j + 1)

\* regexp.Regexp.MatchString: the expression matches somewhere in s
MatchString(re, s) == \E j \in 1..(Len(s) + 1) : MatchHere(re.prog, 1, s, j)

----------------------------------------------------------------------------
(* Address blocks from their text *)

IsDigit(c) == \E i \in 1..Len(Digit) : Digit[i] = c

DigitVal(c) == (CHOOSE i \in 1..Len(Digit) : Digit[i] = c) - 1

\* the value of a run of digits
RECURSIVE Atoi(_)
Atoi(s) ==
    IF Len(s) = 0 THEN 0
    ELSE 10 * Atoi(SubSeq(s, 1, Len(s) - 1)) + DigitVal(s[Len(s)])

\* strings.IndexByte: the position of the first c in s, 0 when there is none
IndexByte(s, c) ==
    IF \E i \in 1..Len(s) : s[i] = c
    THEN CHOOSE i \in 1..Len(s) : s[i] = c /\ \A j \in 1..(i - 1) : s[j] # c
    ELSE 0

\* the fields of s between the separators, empty fields kept
RECURSIVE Fields(_, _)
Fields(s, sep) ==
    LET i == IndexByte(s, sep) IN
    IF i = 0 THEN <<s>>
    ELSE <<SubSeq(s, 1, i - 1)>> \o Fields(SubSeq(s, i + 1, Len(s)), sep)

\* one field of a dotted quad: one to three digits, no leading zero, at most 255
IsOctet(f) ==
    /\ Len(f) \in 1..3
    /\ \A i \in 1..Len(f) : IsDigit(f[i])
    /\ Len(f) > 1 => f[1] # "0"
    /\ Atoi(f) <= 255

\* the address part of net.ParseCIDR, for dotted quads: the bytes, or <<>>
ParseIPv4(s) ==
    LET f == Fields(s, ".") IN
    IF Len(f) = 4 /\ \A i \in 1..4 : IsOctet(f[i])
    THEN [i \in 1..4 |-> Atoi(f[i])]
    ELSE <<>>

\* the prefix length of net.ParseCIDR: digits only, at most 32; -1 otherwise
ParsePrefixLen(s) ==
    IF Len(s) >= 1 /\ (\A i \in 1..Len(s) : IsDigit(s[i])) /\ Atoi(s) <= 32
    THEN Atoi(s)
    ELSE -1

\* net.ParseCIDR on the text of an IPv4 block: [ok, net]
ParseCIDRText(s) ==
    LET i    == IndexByte(s, "/")
        addr == IF i = 0 THEN <<>> ELSE ParseIPv4(SubSeq(s, 1, i - 1))
        ones == IF i = 0 THEN -1 ELSE ParsePrefixLen(SubSeq(s, i + 1, Len(s)))
    IN  IF i = 0 \/ addr = <<>> \/ ones < 0
        THEN [ok |-> FALSE, net |-> [IP |-> <<>>, Mask |-> <<>>]]
        ELSE [ok |-> TRUE, net |-> ParseCIDR([addr |-> addr, ones |-> ones])]

----------------------------------------------------------------------------
(* The country matcher as the engine uses it *)

\* the database files that exist; none at the default locations
Files == {"geo.mmdb"}

DefaultPaths == <<"/usr/share/GeoIP/GeoLite2-Country.mmdb",
                  "/var/lib/GeoIP/GeoLite2-Country.mmdb",
                  "./GeoLite2-Country.mmdb">>

\* the nil *GeoIPMatcher; a matcher that is not nil has a database (db) or
\* not, which Close may have closed, and a set of country codes
NilMatcher == [nil |-> TRUE, db |-> FALSE, closed |-> FALSE, countries |-> {}]

\* NewGeoIPMatcher: [matcher, err]
NewGeoIPMatcher(dbPath, countries) ==
    LET found == {i \in 1..Len(DefaultPaths) : DefaultPaths[i] \in Files}
        path  == IF dbPath # "" THEN dbPath
                 ELSE IF found = {} THEN ""
                 ELSE DefaultPaths[CHOOSE i \in found : \A j \in found : i <= j]
    IN  IF path = "" THEN [matcher |-> NilMatcher, err |-> FALSE]
        ELSE IF path \notin Files THEN [matcher |-> NilMatcher, err |-> TRUE]
        ELSE [matcher |-> [nil |-> FALSE, db |-> TRUE, closed |-> FALSE,
                           countries |-> {countries[i] : i \in 1..Len(countries)}],
              err |-> FALSE]

\* the database: the country code recorded for an address, "" when none
Country(ip) ==
    LET v4 == To4(ip) IN
    IF v4 = <<8, 8, 8, 8>> THEN "US"
    ELSE IF v4 = <<5, 9, 0, 1>> THEN "DE"
    ELSE IF v4 = <<10, 9, 0, 1>> THEN "DE"
    ELSE ""

\* a plausible slip: the flag is true for every address that has a country
GeoMatchAnyCountry(g, ip) ==
    IF g.nil \/ ~g.db THEN [country |-> "", ok |-> FALSE]
    ELSE IF g.closed THEN [country |-> "", ok |-> FALSE]
    ELSE IF Country(ip) # ""
         THEN [country |-> Country(ip), ok |-> TRUE]
         ELSE [country |-> "", ok |-> FALSE]

\* GeoIPMatcher.Match: [country, ok]; a lookup in a closed database fails
GeoMatch(g, ip) ==
    IF g.nil \/ ~g.db THEN [country |-> "", ok |-> FALSE]
    ELSE IF g.closed THEN [country |-> "", ok |-> FALSE]
    ELSE IF Country(ip) \in g.countries
         THEN [country |-> Country(ip), ok |-> TRUE]
         ELSE [country |-> "", ok |-> FALSE]

\* GeoIPMatcher.GetCountry
GetCountry(g, ip) ==
    IF g.nil \/ ~g.db THEN ""
    ELSE IF g.closed THEN ""
    ELSE Country(ip)

----------------------------------------------------------------------------
(* The bypass engine: rules and construction *)

NilCompiled == [kind |-> "nil"]

\* a Rule as a caller builds it
Rule(name, type, pattern, action) ==
    [Name |-> name, Type |-> type, Pattern |-> pattern, Action |-> action,
     Description |-> name, compiled |-> NilCompiled]

NilRule == [nil |-> TRUE]

\* Engine.compileRule: [rule, err]
compileRule(r) ==
    IF r.Type = "domain"
    THEN LET c == compileGlobToRegex(r.Pattern) IN
         IF c.err THEN [rule |-> r, err |-> TRUE]
         ELSE [rule |-> [r EXCEPT !.compiled = [kind |-> "regexp", re |-> c.re]],
               err |-> FALSE]
    ELSE IF r.Type = "cidr"
    THEN LET n == ParseCIDRText(r.Pattern) IN
         IF ~n.ok THEN [rule |-> r, err |-> TRUE]
         ELSE [rule |-> [r EXCEPT !.compiled = [kind |-> "ipnet", net |-> n.net]],
               err |-> FALSE]
    ELSE [rule |-> r, err |-> FALSE]

\* the custom rules of the configuration that compile, in order
Compiled(s) == SelectSeq([i \in 1..Len(s) |-> compileRule(s[i])], LAMBDA c : ~c.err)

\* a plausible slip: the loop over the address blocks ends at the first one
\* that does not parse
ParsedBlocksUntilBad(cidrs) ==
    LET all == [i \in 1..Len(cidrs) |-> ParseCIDRText(cidrs[i])]
        bad == {i \in 1..Len(all) : ~all[i].ok}
        n   == IF bad = {} THEN Len(all)
               ELSE (CHOOSE i \in bad : \A j \in bad : i <= j) - 1
    IN  [i \in 1..n |-> all[i].net]

\* compileRules, the loop over cfg.CIDRs: the blocks that parse, in order
ParsedBlocks(cidrs) ==
    LET all == SelectSeq([i \in 1..Len(cidrs) |-> ParseCIDRText(cidrs[i])],
                         LAMBDA x : x.ok)
    IN  [i \in 1..Len(all) |-> all[i].net]

\* NewEngine: the engine compileRules fills in, and the error returned, which
\* is the nil compileRules returns on every path
NewEngine(c) ==
    [domainPatterns |->
         LET all == SelectSeq([i \in 1..Len(c.Domains) |-> compileGlobToRegex(c.Domains[i])],
                              LAMBDA x : ~x.err)
         IN  [i \in 1..Len(all) |-> all[i].re],
     cidrNets |-> ParsedBlocks(c.CIDRs),
     protocols |-> {ToLower(c.Protocols[i]) : i \in 1..Len(c.Protocols)},
     applications |-> {ToLower(c.Applications[i]) : i \in 1..Len(c.Applications)},
     customRules |->
         LET all == Compiled(c.CustomRules) IN [i \in 1..Len(all) |-> all[i].rule],
     geoIP |->
         IF c.GeoIP.Enabled
         THEN LET g == NewGeoIPMatcher(c.GeoIP.DatabasePath, c.GeoIP.Countries) IN
              IF g.err THEN NilMatcher ELSE g.matcher
         ELSE NilMatcher,
     err |-> FALSE]

\* the state after NewEngine(c)
InitEngineWith(c) ==
    /\ ecfg = c
    /\ domainPatterns = NewEngine(c).domainPatterns
    /\ cidrNets = NewEngine(c).cidrNets
    /\ protocols = NewEngine(c).protocols
    /\ applications = NewEngine(c).applications
    /\ customRules = NewEngine(c).customRules
    /\ geoIP = NewEngine(c).geoIP
    /\ elast = [op |-> "none"]
    /\ returned = <<>>

----------------------------------------------------------------------------
(* The bypass engine: matching *)

NoMatch == [Matched |-> FALSE, Rule |-> NilRule, Action |-> "", Reason |-> <<>>]

\* the least element of a non-empty set of positions
First(S) == CHOOSE i \in S : \A j \in S : i <= j

\* the result a custom rule gives
RuleMatch(rule) ==
    [Matched |-> TRUE, Rule |-> rule, Action |-> rule.Action,
     Reason |-> <<rule.Description>>]

\* the result a configuration-level entry gives
BypassMatch(reason) ==
    [Matched |-> TRUE, Rule |-> NilRule, Action |-> "bypass", Reason |-> reason]

\* a plausible slip: custom rules are looked at before the configuration's
\* patterns
MatchDomainRulesFirst(domain) ==
    LET d      == ToLower(domain)
        hits   == {i \in 1..Len(domainPatterns) : MatchString(domainPatterns[i], d)}
        custom == {i \in 1..Len(customRules) :
                     /\ customRules[i].Type = "domain"
                     /\ customRules[i].compiled.kind = "regexp"
                     /\ MatchString(customRules[i].compiled.re, d)}
    IN  IF ~ecfg.Enabled THEN NoMatch
        ELSE IF custom # {} THEN RuleMatch(customRules[First(custom)])
        ELSE IF hits # {}
        THEN BypassMatch(<<"matches pattern ", domainPatterns[First(hits)].text>>)
        ELSE NoMatch

\* Engine.MatchDomain
MatchDomain(domain) ==
    LET d      == ToLower(domain)
        hits   == {i \in 1..Len(domainPatterns) : MatchString(domainPatterns[i], d)}
        custom == {i \in 1..Len(customRules) :
                     /\ customRules[i].Type = "domain"
                     /\ customRules[i].compiled.kind = "regexp"
                     /\ MatchString(customRules[i].compiled.re, d)}
    IN  IF ~ecfg.Enabled THEN NoMatch
        ELSE IF hits # {}
        THEN BypassMatch(<<"matches pattern ", domainPatterns[First(hits)].text>>)
        ELSE IF custom # {} THEN RuleMatch(customRules[First(custom)])
        ELSE NoMatch

\* a plausible slip: the country matcher is consulted after the custom rules
MatchIPRulesBeforeCountry(ip) ==
    LET hits   == {i \in 1..Len(cidrNets) : Contains(cidrNets[i], ip)}
        geo    == GeoMatch(geoIP, ip)
        custom == {i \in 1..Len(customRules) :
                     /\ customRules[i].Type = "cidr"
                     /\ customRules[i].compiled.kind = "ipnet"
                     /\ Contains(customRules[i].compiled.net, ip)}
    IN  IF ~ecfg.Enabled THEN NoMatch
        ELSE IF hits # {}
        THEN BypassMatch(<<"matches CIDR ", cidrNets[First(hits)]>>)
        ELSE IF custom # {} THEN RuleMatch(customRules[First(custom)])
        ELSE IF ~geoIP.nil /\ geo.ok
        THEN BypassMatch(<<"matches country ", geo.country>>)
        ELSE NoMatch

\* Engine.MatchIP
MatchIP(ip) ==
    LET hits   == {i \in 1..Len(cidrNets) : Contains(cidrNets[i], ip)}
        geo    == GeoMatch(geoIP, ip)
        custom == {i \in 1..Len(customRules) :
                     /\ customRules[i].Type = "cidr"
                     /\ customRules[i].compiled.kind = "ipnet"
                     /\ Contains(customRules[i].compiled.net, ip)}
    IN  IF ~ecfg.Enabled THEN NoMatch
        ELSE IF hits # {}
        THEN BypassMatch(<<"matches CIDR ", cidrNets[First(hits)]>>)
        ELSE IF ~geoIP.nil /\ geo.ok
        THEN BypassMatch(<<"matches country ", geo.country>>)
        ELSE IF custom # {} THEN RuleMatch(customRules[First(custom)])
        ELSE NoMatch

\* a plausible slip: the name asked about is compared as it is spelled
MatchProtocolCaseKept(proto) ==
    IF ~ecfg.Enabled THEN NoMatch
    ELSE IF proto \in protocols
    THEN BypassMatch(<<"protocol ", proto, " is bypassed">>)
    ELSE NoMatch

\* a plausible slip: custom rules of type protocol are looked at as well
MatchProtocolCustom(proto) ==
    LET custom == {i \in 1..Len(customRules) :
                     /\ customRules[i].Type = "protocol"
                     /\ customRules[i].Pattern = ToLower(proto)}
    IN  IF ~ecfg.Enabled THEN NoMatch
        ELSE IF ToLower(proto) \in protocols
        THEN BypassMatch(<<"protocol ", ToLower(proto), " is bypassed">>)
        ELSE IF custom # {} THEN RuleMatch(customRules[First(custom)])
        ELSE NoMatch

\* Engine.MatchProtocol
MatchProtocol(proto) ==
    IF ~ecfg.Enabled THEN NoMatch
    ELSE IF ToLower(proto) \in protocols
    THEN BypassMatch(<<"protocol ", ToLower(proto), " is bypassed">>)
    ELSE NoMatch

\* a plausible slip: the Enabled flag is not looked at
MatchApplicationAlways(appName) ==
    IF ToLower(appName) \in applications
    THEN BypassMatch(<<"application ", ToLower(appName), " is bypassed">>)
    ELSE NoMatch

\* Engine.MatchApplication
MatchApplication(appName) ==
    IF ~ecfg.Enabled THEN NoMatch
    ELSE IF ToLower(appName) \in applications
    THEN BypassMatch(<<"application ", ToLower(appName), " is bypassed">>)
    ELSE NoMatch

----------------------------------------------------------------------------
(* The bypass engine: inputs *)

MaxRules == 3

GeoOff == [Enabled |-> FALSE, DatabasePath |-> "", Countries |-> <<>>]

\* the configuration-level rule of the disabled configuration
ConfigRule == Rule("cfg", "domain", <<"*",".","e","x","a","m","p","l","e">>, "bypass")

\* an enabled configuration with every kind of entry, the same one disabled
\* and with a custom rule, and an enabled one with nothing that parses
EngineConfigs == {
    [Enabled |-> TRUE,
     Domains |-> <<<<"*",".","l","o","c","a","l">>, <<"e","x","a","m","p","l","e",".","c","o","m">>>>,
     CIDRs |-> <<<<"1","0",".","0",".","0",".","0","/","8">>, <<"1","9","2",".","1","6","8",".","0",".","0","/","1","6">>, <<"1","7","2",".","1","6",".","0",".","0","/","1","2">>, <<"1","2","7",".","0",".","0",".","0","/","8">>>>,
     Protocols |-> <<<<"i","c","m","p">>, <<"N","T","P">>>>,
     Applications |-> <<<<"F","i","r","e","f","o","x">>>>,
     CustomRules |-> <<>>,
     GeoIP |-> [Enabled |-> TRUE, DatabasePath |-> "geo.mmdb", Countries |-> <<"DE">>]],
    [Enabled |-> FALSE,
     Domains |-> <<<<"*",".","l","o","c","a","l">>, <<"e","x","a","m","p","l","e",".","c","o","m">>>>,
     CIDRs |-> <<<<"1","0",".","0",".","0",".","0","/","8">>, <<"1","9","2",".","1","6","8",".","0",".","0","/","1","6">>, <<"1","7","2",".","1","6",".","0",".","0","/","1","2">>, <<"1","2","7",".","0",".","0",".","0","/","8">>>>,
     Protocols |-> <<<<"i","c","m","p">>, <<"N","T","P">>>>,
     Applications |-> <<<<"F","i","r","e","f","o","x">>>>,
     CustomRules |-> <<ConfigRule>>,
     GeoIP |-> [Enabled |-> TRUE, DatabasePath |-> "geo.mmdb", Countries |-> <<"DE">>]],
    [Enabled |-> TRUE,
     Domains |-> <<>>,
     CIDRs |-> <<<<"b","o","g","u","s">>, <<"1","0",".","0",".","0",".","0","/","3","3">>>>,
     Protocols |-> <<>>,
     Applications |-> <<>>,
     CustomRules |-> <<>>,
     GeoIP |-> [Enabled |-> TRUE, DatabasePath |-> "", Countries |-> <<"DE">>]] }

\* the configuration of the engine tests that add and list rules
RulesConfig ==
    [Enabled |-> TRUE, Domains |-> <<>>, CIDRs |-> <<>>, Protocols |-> <<>>,
     Applications |-> <<>>, CustomRules |-> <<>>, GeoIP |-> GeoOff]

\* rules handed to AddRule: two of one name, two domain rules that overlap,
\* one that overlaps a configuration pattern, two blocks that overlap, a
\* block that does not parse, a type that is stored uncompiled
Rules == {
    Rule("r1", "domain", <<"*",".","e","x","a","m","p","l","e">>, "bypass"),
    Rule("r1", "domain", <<"*",".","l","o","c","a","l">>, "block"),
    Rule("r2", "domain", <<"t","e","s","t",".","*">>, "tor"),
    Rule("net", "cidr", <<"8",".","8",".","0",".","0","/","1","6">>, "block"),
    Rule("r2", "cidr", <<"0",".","0",".","0",".","0","/","4">>, "tor"),
    Rule("bad", "cidr", <<"1","0",".","0",".","0",".","0","/","3","3">>, "bypass"),
    Rule("port", "port", <<"8","0">>, "bypass") }

RuleNames == {"r1", "r2", "net", "none"}

EngineDomains == {
    <<"t","e","s","t",".","l","o","c","a","l">>, <<"S","u","b",".","T","e","s","t",".","L","O","C","A","L">>, <<"l","o","c","a","l">>,
    <<"e","x","a","m","p","l","e",".","c","o","m">>, <<"s","u","b",".","e","x","a","m","p","l","e",".","c","o","m">>,
    <<"t","e","s","t",".","e","x","a","m","p","l","e">>, <<"x",".","e","x","a","m","p","l","e">>, <<"g","o","o","g","l","e",".","c","o","m">> }

EngineIPs == {
    <<10, 255, 255, 255>>, <<192, 168, 100, 50>>, <<172, 31, 255, 255>>,
    <<127, 0, 0, 1>>, Mapped16(<<8, 8, 8, 8>>), <<172, 32, 0, 0>>,
    <<5, 9, 0, 1>>, <<10, 9, 0, 1>> }

EngineProtocols == {<<"i","c","m","p">>, <<"I","C","M","P">>, <<"n","t","p">>, <<"t","c","p">>}

EngineApplications == {<<"f","i","r","e","f","o","x">>, <<"F","I","R","E","F","O","X">>, <<"c","u","r","l">>}

----------------------------------------------------------------------------
(* The bypass engine: calls *)

Called(op, arg, result) == [op |-> op, arg |-> arg, ret |-> result]

CallMatchDomain(domain) ==
    /\ elast' = Called("MatchDomain", domain, MatchDomain(domain))
    /\ UNCHANGED <<avars, fvars, rvars, ecfg, domainPatterns, cidrNets, protocols,
                   applications, customRules, geoIP, returned>>

CallMatchIP(ip) ==
    /\ elast' = Called("MatchIP", ip, MatchIP(ip))
    /\ UNCHANGED <<avars, fvars, rvars, ecfg, domainPatterns, cidrNets, protocols,
                   applications, customRules, geoIP, returned>>

CallMatchProtocol(proto) ==
    /\ elast' = Called("MatchProtocol", proto, MatchProtocol(proto))
    /\ UNCHANGED <<avars, fvars, rvars, ecfg, domainPatterns, cidrNets, protocols,
                   applications, customRules, geoIP, returned>>

CallMatchApplication(appName) ==
    /\ elast' = Called("MatchApplication", appName, MatchApplication(appName))
    /\ UNCHANGED <<avars, fvars, rvars, ecfg, domainPatterns, cidrNets, protocols,
                   applications, customRules, geoIP, returned>>

\* a plausible slip: the rule is appended before it is compiled
AddRuleAppendsFirst(rule) ==
    LET c == compileRule(rule) IN
    /\ Len(customRules) < MaxRules
    /\ customRules' = Append(customRules, c.rule)
    /\ elast' = Called("AddRule", rule, IF c.err THEN "error" ELSE "nil")
    /\ UNCHANGED <<avars, fvars, rvars, ecfg, domainPatterns, cidrNets, protocols,
                   applications, geoIP, returned>>

\* a plausible slip: the rule is stored as the caller gave it, without its
\* compiled pattern
AddRuleUncompiled(rule) ==
    LET c == compileRule(rule) IN
    /\ Len(customRules) < MaxRules
    /\ IF c.err
       THEN /\ customRules' = customRules
            /\ elast' = Called("AddRule", rule, "error")
       ELSE /\ customRules' = Append(customRules, rule)
            /\ elast' = Called("AddRule", rule, "nil")
    /\ UNCHANGED <<avars, fvars, rvars, ecfg, domainPatterns, cidrNets, protocols,
                   applications, geoIP, returned>>

\* Engine.AddRule
AddRule(rule) ==
    LET c == compileRule(rule) IN
    /\ Len(customRules) < MaxRules
    /\ IF c.err
       THEN /\ customRules' = customRules
            /\ elast' = Called("AddRule", rule, "error")
       ELSE /\ customRules' = Append(customRules, c.rule)
            /\ elast' = Called("AddRule", rule, "nil")
    /\ UNCHANGED <<avars, fvars, rvars, ecfg, domainPatterns, cidrNets, protocols,
                   applications, geoIP, returned>>

\* a plausible slip: every rule of that name is removed
RemoveRuleAll(name) ==
    LET named == {i \in 1..Len(customRules) : customRules[i].Name = name} IN
    /\ customRules' = SelectSeq(customRules, LAMBDA r : r.Name # name)
    /\ elast' = Called("RemoveRule", name, named # {})
    /\ UNCHANGED <<avars, fvars, rvars, ecfg, domainPatterns, cidrNets, protocols,
                   applications, geoIP, returned>>

\* Engine.RemoveRule
RemoveRule(name) ==
    LET named == {i \in 1..Len(customRules) : customRules[i].Name = name} IN
    /\ IF named # {}
       THEN /\ customRules' = SubSeq(customRules, 1, First(named) - 1)
                                \o SubSeq(customRules, First(named) + 1, Len(customRules))
            /\ elast' = Called("RemoveRule", name, TRUE)
       ELSE /\ customRules' = customRules
            /\ elast' = Called("RemoveRule", name, FALSE)
    /\ UNCHANGED <<avars, fvars, rvars, ecfg, domainPatterns, cidrNets, protocols,
                   applications, geoIP, returned>>

\* Engine.GetRules: a new list with the rules copied into it
GetRules ==
    /\ returned' = customRules
    /\ elast' = Called("GetRules", <<>>, customRules)
    /\ UNCHANGED <<avars, fvars, rvars, ecfg, domainPatterns, cidrNets, protocols,
                   applications, customRules, geoIP>>

\* a plausible slip: GetRules hands out the engine's own list, so that what
\* the caller writes into it is written into the engine's rules
WriteReturnedShared(i, name) ==
    /\ i \in 1..Len(returned)
    /\ i \in 1..Len(customRules)
    /\ returned[i].Name # name
    /\ returned' = [returned EXCEPT ![i].Name = name]
    /\ customRules' = [customRules EXCEPT ![i].Name = name]
    /\ elast' = Called("write", <<i, name>>, <<>>)
    /\ UNCHANGED <<avars, fvars, rvars, ecfg, domainPatterns, cidrNets, protocols,
                   applications, geoIP>>

\* the caller of GetRules renames element i of the list it was given
WriteReturned(i, name) ==
    /\ i \in 1..Len(returned)
    /\ returned[i].Name # name
    /\ returned' = [returned EXCEPT ![i].Name = name]
    /\ elast' = Called("write", <<i, name>>, <<>>)
    /\ UNCHANGED <<avars, fvars, rvars, ecfg, domainPatterns, cidrNets, protocols,
                   applications, customRules, geoIP>>

\* the test of compileGlobToRegex: compile a pattern, match an input
CallCompileGlob(pattern, input) ==
    LET c == compileGlobToRegex(pattern) IN
    /\ elast' = Called("compileGlobToRegex", <<pattern, input>>,
                       [err |-> c.err, match |-> ~c.err /\ MatchString(c.re, input)])
    /\ UNCHANGED <<avars, fvars, rvars, ecfg, domainPatterns, cidrNets, protocols,
                   applications, customRules, geoIP, returned>>

----------------------------------------------------------------------------
(* The country matcher on its own: calls on the matcher held in geoIP *)

\* the result of a method without a value to return, or with an error only:
\* fault is the nil-pointer panic of a method entered on the nil matcher
Completed == [fault |-> FALSE]

Faulted == [fault |-> TRUE]

CallGeoMatch(ip) ==
    /\ elast' = Called("Match", ip, GeoMatch(geoIP, ip))
    /\ UNCHANGED <<avars, fvars, rvars, ecfg, domainPatterns, cidrNets, protocols,
                   applications, customRules, geoIP, returned>>

CallGetCountry(ip) ==
    /\ elast' = Called("GetCountry", ip, GetCountry(geoIP, ip))
    /\ UNCHANGED <<avars, fvars, rvars, ecfg, domainPatterns, cidrNets, protocols,
                   applications, customRules, geoIP, returned>>

\* a plausible slip: a code added again is taken out, as in a toggle
AddCountryToggles(code) ==
    /\ IF geoIP.nil
       THEN /\ geoIP' = geoIP
            /\ elast' = Called("AddCountry", code, Faulted)
       ELSE /\ geoIP' = [geoIP EXCEPT !.countries =
                            IF code \in @ THEN @ \ {code} ELSE @ \cup {code}]
            /\ elast' = Called("AddCountry", code, Completed)
    /\ UNCHANGED <<avars, fvars, rvars, ecfg, domainPatterns, cidrNets, protocols,
                   applications, customRules, returned>>

\* GeoIPMatcher.AddCountry: g.mu.Lock() is reached without a test of g
AddCountry(code) ==
    /\ IF geoIP.nil
       THEN /\ geoIP' = geoIP
            /\ elast' = Called("AddCountry", code, Faulted)
       ELSE /\ geoIP' = [geoIP EXCEPT !.countries = @ \cup {code}]
            /\ elast' = Called("AddCountry", code, Completed)
    /\ UNCHANGED <<avars, fvars, rvars, ecfg, domainPatterns, cidrNets, protocols,
                   applications, customRules, returned>>

\* GeoIPMatcher.RemoveCountry: g.mu.Lock() is reached without a test of g
RemoveCountry(code) ==
    /\ IF geoIP.nil
       THEN /\ geoIP' = geoIP
            /\ elast' = Called("RemoveCountry", code, Faulted)
       ELSE /\ geoIP' = [geoIP EXCEPT !.countries = @ \ {code}]
            /\ elast' = Called("RemoveCountry", code, Completed)
    /\ UNCHANGED <<avars, fvars, rvars, ecfg, domainPatterns, cidrNets, protocols,
                   applications, customRules, returned>>

\* GeoIPMatcher.Close
Close ==
    /\ geoIP' = IF geoIP.nil \/ ~geoIP.db THEN geoIP
                ELSE [geoIP EXCEPT !.closed = TRUE]
    /\ elast' = Called("Close", <<>>, Completed)
    /\ UNCHANGED <<avars, fvars, rvars, ecfg, domainPatterns, cidrNets, protocols,
                   applications, customRules, returned>>

\* the lists that hold each element of S once
ListsOf(S) ==
    {l \in [1..Cardinality(S) -> S] : \A c \in S : \E i \in DOMAIN l : l[i] = c}

\* GeoIPMatcher.GetBypassedCountries: nil (the empty list) for the nil
\* matcher, else the keys of the map in the order the iteration gives them
GetBypassedCountries ==
    /\ \E l \in (IF geoIP.nil THEN {<<>>} ELSE ListsOf(geoIP.countries)) :
           elast' = Called("GetBypassedCountries", <<>>, l)
    /\ UNCHANGED <<avars, fvars, rvars, ecfg, domainPatterns, cidrNets, protocols,
                   applications, customRules, geoIP, returned>>

----------------------------------------------------------------------------
(* The split-tunnel classifier *)

\* the RecordConnection calls of one run
MaxRecords == 2

RECURSIVE GCD(_, _)
GCD(a, b) == IF b = 0 THEN a ELSE GCD(b, a % b)

\* a float64 of the classifier, kept as the fraction it stands for
Ratio(n, d) == [num |-> n \div GCD(n, d), den |-> d \div GCD(n, d)]

AtLeast(a, b) == a.num * b.den >= b.num * a.den

Above(a, b) == a.num * b.den > b.num * a.den

\* NewSplitTunnelAI: confidenceThreshold
confidenceThreshold == Ratio(7, 10)

\* strings.Contains
ContainsString(s, substr) ==
    \E i \in 1..(Len(s) - Len(substr) + 1) : SubSeq(s, i, i + Len(substr) - 1) = substr

\* initPatterns: each expression is an alternation of literals, found
\* anywhere in the text or, with a closing $, at its end
sensitivePatterns == <<
    [lits |-> {<<".","o","n","i","o","n">>}, end |-> TRUE],
    [lits |-> {<<"b","a","n","k",".">>, <<"b","a","n","k","i","n","g",".">>}, end |-> FALSE],
    [lits |-> {<<"s","e","c","u","r","e",".">>, <<"l","o","g","i","n",".">>, <<"a","u","t","h",".">>}, end |-> FALSE],
    [lits |-> {<<"p","r","o","t","o","n","m","a","i","l">>, <<"t","u","t","a","n","o","t","a","m","a","i","l">>}, end |-> FALSE],
    [lits |-> {<<"s","i","g","n","a","l">>, <<"t","e","l","e","g","r","a","m">>, <<"w","h","a","t","s","a","p","p">>}, end |-> FALSE],
    [lits |-> {<<"t","o","r">>, <<"t","a","i","l","s">>, <<"w","h","o","n","i","x">>}, end |-> FALSE],
    [lits |-> {<<"v","p","n">>, <<"p","r","o","x","y">>}, end |-> FALSE],
    [lits |-> {<<"c","r","y","p","t","o">>, <<"b","i","t","c","o","i","n">>, <<"e","t","h","e","r","e","u","m">>}, end |-> FALSE],
    [lits |-> {<<"h","e","a","l","t","h">>, <<"m","e","d","i","c","a","l">>, <<"h","o","s","p","i","t","a","l">>}, end |-> FALSE],
    [lits |-> {<<"l","e","g","a","l">>, <<"l","a","w","y","e","r">>, <<"a","t","t","o","r","n","e","y">>}, end |-> FALSE] >>

speedPatterns == <<
    [lits |-> {<<"y","o","u","t","u","b","e">>, <<"n","e","t","f","l","i","x">>, <<"h","u","l","u">>, <<"d","i","s","n","e","y">>}, end |-> FALSE],
    [lits |-> {<<"s","p","o","t","i","f","y">>, <<"s","o","u","n","d","c","l","o","u","d">>, <<"m","u","s","i","c">>}, end |-> FALSE],
    [lits |-> {<<"s","t","e","a","m">>, <<"e","p","i","c">>, <<"o","r","i","g","i","n">>, <<"g","o","g">>}, end |-> FALSE],
    [lits |-> {<<"c","d","n">>, <<"c","l","o","u","d","f","r","o","n","t">>, <<"a","k","a","m","a","i">>, <<"f","a","s","t","l","y">>}, end |-> FALSE],
    [lits |-> {<<"u","p","d","a","t","e">>, <<"d","o","w","n","l","o","a","d">>, <<"p","a","t","c","h">>}, end |-> FALSE],
    [lits |-> {<<".","m","p","4">>, <<".","m","k","v">>, <<".","a","v","i">>, <<".","m","o","v">>}, end |-> TRUE],
    [lits |-> {<<".","i","s","o">>, <<".","z","i","p">>, <<".","t","a","r">>, <<".","g","z">>}, end |-> TRUE] >>

\* initPatterns: the keys of sensitiveDomains
BuiltInSensitiveDomains == {
    <<"p","r","o","t","o","n","m","a","i","l",".","c","o","m">>,
    <<"t","u","t","a","n","o","t","a",".","c","o","m">>,
    <<"s","i","g","n","a","l",".","o","r","g">>,
    <<"d","u","c","k","d","u","c","k","g","o",".","c","o","m">>,
    <<"p","r","i","v","a","c","y","t","o","o","l","s",".","i","o">>,
    <<"t","o","r","p","r","o","j","e","c","t",".","o","r","g">>,
    <<"e","f","f",".","o","r","g">> }

\* initPatterns: the keys of speedDomains
BuiltInSpeedDomains == {
    <<"y","o","u","t","u","b","e",".","c","o","m">>,
    <<"g","o","o","g","l","e","v","i","d","e","o",".","c","o","m">>,
    <<"n","e","t","f","l","i","x",".","c","o","m">>,
    <<"n","f","l","x","v","i","d","e","o",".","n","e","t">>,
    <<"s","p","o","t","i","f","y",".","c","o","m">>,
    <<"s","t","e","a","m","p","o","w","e","r","e","d",".","c","o","m">>,
    <<"s","t","e","a","m","c","o","n","t","e","n","t",".","c","o","m">>,
    <<"a","k","a","m","a","i","z","e","d",".","n","e","t">> }

\* regexp.MatchString for the expressions of initPatterns
PatternMatchString(p, s) ==
    \E l \in p.lits : IF p.end THEN HasSuffix(s, l) ELSE ContainsString(s, l)

MatchesAny(patterns, s) ==
    \E i \in DOMAIN patterns : PatternMatchString(patterns[i], s)

\* the zero AppProfile with a name, a path and a category
NewProfile(name, path, category) ==
    [Name |-> name, ExecutablePath |-> path, Category |-> category,
     ConnectionCount |-> 0, SensitivePatterns |-> 0, SpeedSensitive |-> 0,
     Domains |-> <<>>, Confidence |-> Ratio(0, 1)]

NoRecord == [op |-> "none"]

\* NewSplitTunnelAI: initPatterns, then loadData with the profiles saved in
\* dataDir and no file of custom domains
InitSplitTunnelWith(saved) ==
    /\ ai = [appProfiles |-> saved, learningEnabled |-> TRUE,
             sensitiveDomains |-> BuiltInSensitiveDomains,
             speedDomains |-> BuiltInSpeedDomains]
    /\ alast = [op |-> "none", arg |-> <<>>, ret |-> <<>>, save |-> FALSE]
    /\ arec = [g \in Goroutines |-> NoRecord]
    /\ recorded = 0

\* NewSplitTunnelAI with no saved data in dataDir
InitSplitTunnel == InitSplitTunnelWith(EmptyMap)

Answer(useTor, confidence, reason) ==
    [useTor |-> useTor, confidence |-> confidence, reason |-> reason]

\* ShouldUseTor
ShouldUseTor(appName, domain) ==
    LET domainLower == ToLower(domain)
        exists == MapHas(ai.appProfiles, appName)
        profile == ai.appProfiles[appName]
    IN IF \E d \in ai.sensitiveDomains : ContainsString(domainLower, d)
       THEN Answer(TRUE, Ratio(1, 1), "sensitive_domain")
       ELSE IF \E d \in ai.speedDomains : ContainsString(domainLower, d)
       THEN Answer(FALSE, Ratio(1, 1), "speed_domain")
       ELSE IF MatchesAny(sensitivePatterns, domainLower)
       THEN Answer(TRUE, Ratio(9, 10), "sensitive_pattern")
       ELSE IF MatchesAny(speedPatterns, domainLower)
       THEN Answer(FALSE, Ratio(9, 10), "speed_pattern")
       ELSE IF exists /\ profile.Category = "user_defined"
       THEN Answer(profile.Category = "always_tor", Ratio(1, 1), "user_defined")
       ELSE IF exists /\ AtLeast(profile.Confidence, confidenceThreshold)
       THEN Answer(profile.Category = "always_tor", profile.Confidence, "learned")
       ELSE Answer(TRUE, Ratio(1, 2), "default_safe")

\* the cap of updateCategory
CapConfidence(c) == IF Above(c, Ratio(19, 20)) THEN Ratio(19, 20) ELSE c

\* updateCategory
updateCategory(profile) ==
    LET count == profile.ConnectionCount
        sensitive == profile.SensitivePatterns
        speed == profile.SpeedSensitive
    IN IF count < 10
       THEN [profile EXCEPT !.Category = "learning", !.Confidence = Ratio(count, 20)]
       ELSE IF 10 * sensitive > 3 * count
       THEN [profile EXCEPT !.Category = "always_tor",
                            !.Confidence = CapConfidence(Ratio(count + sensitive, 2 * count))]
       ELSE IF 2 * speed > count /\ 10 * sensitive < count
       THEN [profile EXCEPT !.Category = "direct",
                            !.Confidence = CapConfidence(Ratio(5 * count + 4 * speed, 10 * count))]
       ELSE [profile EXCEPT !.Category = "always_tor", !.Confidence = Ratio(3, 5)]

\* contains
InSlice(slice, item) == \E i \in DOMAIN slice : slice[i] = item

Bump(cond) == IF cond THEN 1 ELSE 0

\* goroutines are interchangeable: a new call runs on the first free one
AFree(g) == arec[g] = NoRecord /\ \A h \in Goroutines : h < g => arec[h] # NoRecord

\* RecordConnection up to ai.mu.Lock(): learningEnabled is read without the
\* lock, so the value read is the one before or the one after any
\* EnableLearning that runs beside this call
RecordConnectionCheck(g, appName, execPath, domain, isSensitive, isSpeedCritical) ==
    LET arg == <<appName, execPath, domain, isSensitive, isSpeedCritical>> IN
    /\ AFree(g)
    /\ recorded < MaxRecords
    /\ recorded' = recorded + 1
    /\ IF ~ai.learningEnabled
       THEN /\ alast' = [op |-> "RecordConnection", arg |-> arg, ret |-> <<>>,
                         save |-> FALSE]
            /\ arec' = arec
       ELSE /\ alast' = alast
            /\ arec' = [arec EXCEPT ![g] = [op |-> "RecordConnection", arg |-> arg]]
    /\ UNCHANGED <<ai, fvars, rvars, evars>>

\* RecordConnection from ai.mu.Lock() to its return
RecordConnection(g) ==
    LET appName == arec[g].arg[1]
        execPath == arec[g].arg[2]
        domain == arec[g].arg[3]
        isSensitive == arec[g].arg[4]
        isSpeedCritical == arec[g].arg[5]
        exists == MapHas(ai.appProfiles, appName)
        profile == IF exists THEN ai.appProfiles[appName]
                   ELSE NewProfile(appName, execPath, "learning")
        domainLower == ToLower(domain)
        counted ==
            [profile EXCEPT
                !.ConnectionCount = @ + 1,
                !.Domains = IF ~InSlice(@, domain) /\ Len(@) < 100
                            THEN Append(@, domain) ELSE @,
                !.SensitivePatterns = @ + Bump(MatchesAny(sensitivePatterns, domainLower))
                                        + Bump(isSensitive),
                !.SpeedSensitive = @ + Bump(MatchesAny(speedPatterns, domainLower))
                                     + Bump(isSpeedCritical)]
        skipped == profile.Category = "user_defined"
    IN /\ arec[g] # NoRecord
       /\ ai' = IF skipped
                THEN [ai EXCEPT !.appProfiles = MapSet(@, appName, profile)]
                ELSE [ai EXCEPT !.appProfiles = MapSet(@, appName, updateCategory(counted))]
       /\ alast' = [op |-> "RecordConnection", arg |-> arec[g].arg, ret |-> <<>>,
                    save |-> ~skipped /\ counted.ConnectionCount % 20 = 0]
       /\ arec' = [arec EXCEPT ![g] = NoRecord]
       /\ UNCHANGED <<recorded, fvars, rvars, evars>>

\* SetAppCategory
SetAppCategory(appName, alwaysTor) ==
    LET profile == IF MapHas(ai.appProfiles, appName) THEN ai.appProfiles[appName]
                   ELSE NewProfile(appName, "", "user_defined")
        forced == [profile EXCEPT
                      !.Category = "user_defined",
                      !.SensitivePatterns = IF alwaysTor THEN 100 ELSE @,
                      !.SpeedSensitive = IF alwaysTor THEN @ ELSE 100,
                      !.Confidence = Ratio(1, 1)]
    IN /\ ai' = [ai EXCEPT !.appProfiles = MapSet(@, appName, forced)]
       /\ alast' = [op |-> "SetAppCategory", arg |-> <<appName, alwaysTor>>,
                    ret |-> <<>>, save |-> TRUE]
       /\ UNCHANGED <<arec, recorded, fvars, rvars, evars>>

\* EnableLearning
EnableLearning(enabled) ==
    /\ ai' = [ai EXCEPT !.learningEnabled = enabled]
    /\ alast' = [op |-> "EnableLearning", arg |-> <<enabled>>, ret |-> <<>>,
                 save |-> FALSE]
    /\ UNCHANGED <<arec, recorded, fvars, rvars, evars>>

\* AddSensitiveDomain
AddSensitiveDomain(domain) ==
    /\ ai' = [ai EXCEPT !.sensitiveDomains = @ \cup {ToLower(domain)}]
    /\ alast' = [op |-> "AddSensitiveDomain", arg |-> <<domain>>, ret |-> <<>>,
                 save |-> TRUE]
    /\ UNCHANGED <<arec, recorded, fvars, rvars, evars>>

\* AddSpeedDomain
AddSpeedDomain(domain) ==
    /\ ai' = [ai EXCEPT !.speedDomains = @ \cup {ToLower(domain)}]
    /\ alast' = [op |-> "AddSpeedDomain", arg |-> <<domain>>, ret |-> <<>>,
                 save |-> TRUE]
    /\ UNCHANGED <<arec, recorded, fvars, rvars, evars>>

\* ResetLearning: the profiles the user has set are kept, the others deleted
ResetLearning ==
    /\ ai' = [ai EXCEPT !.appProfiles =
                 [name \in {n \in DOMAIN @ : @[n].Category = "user_defined"} |-> @[name]]]
    /\ alast' = [op |-> "ResetLearning", arg |-> <<>>, ret |-> <<>>, save |-> TRUE]
    /\ UNCHANGED <<arec, recorded, fvars, rvars, evars>>

\* a caller of ShouldUseTor
CallShouldUseTor(appName, domain) ==
    /\ alast' = [op |-> "ShouldUseTor", arg |-> <<appName, domain>>,
                 ret |-> ShouldUseTor(appName, domain), save |-> FALSE]
    /\ UNCHANGED <<ai, arec, recorded, fvars, rvars, evars>>

----------------------------------------------------------------------------
(* Specifications of the resolver and of the bypass engine *)

\* NewFakeDNSServer with the block of the tests
InitFakeDNSDefault ==
    /\ fakeSubnet = ParseCIDR([addr |-> <<198, 18, 0, 0>>, ones |-> 15])
    /\ InitFakeDNS

\* the three components as their constructors leave them
Init ==
    /\ InitFakeDNS
    /\ InitSplitTunnel
    /\ InitResolverWith(DefaultDNSPort, NilBypass)
    /\ InitEngineWith(RulesConfig)

\* the resolver with one FakeDNS server beside it
InitResolver ==
    /\ InitFakeDNSDefault
    /\ InitSplitTunnel
    /\ InitEngineWith(RulesConfig)
    /\ \E port \in DNSPorts, bcfg \in BypassConfigs : InitResolverWith(port, bcfg)

NextResolver ==
    \/ \E g \in Goroutines :
         \/ \E r \in Requests : Receive(g, r)
         \/ CacheLookup(g)
         \/ \E outcome \in Outcomes : resolveTor(g, outcome)
         \/ \E outcome \in Outcomes : resolveBypassSystem(g, outcome)
         \/ \E outcome \in Outcomes : resolveBypassLoopback(g, outcome)
         \/ Finish(g)
    \/ Tick

SpecResolver == InitResolver /\ [][NextResolver]_vars

\* the engine under every configuration, with callers matching and changing
\* the custom rules
InitEngine ==
    /\ InitFakeDNSDefault
    /\ InitSplitTunnel
    /\ InitResolverWith(DefaultDNSPort, NilBypass)
    /\ \E c \in EngineConfigs : InitEngineWith(c)

NextEngine ==
    \/ \E domain \in EngineDomains : CallMatchDomain(domain)
    \/ \E ip \in EngineIPs : CallMatchIP(ip)
    \/ \E proto \in EngineProtocols : CallMatchProtocol(proto)
    \/ \E appName \in EngineApplications : CallMatchApplication(appName)
    \/ \E rule \in Rules : AddRule(rule)
    \/ \E name \in RuleNames : RemoveRule(name)

SpecEngine == InitEngine /\ [][NextEngine]_vars

\* the custom rule set with callers that add, remove, list and write into
\* the lists they were given
ListedRules == {r \in Rules : r.Name \in {"r1", "net", "bad"}}

InitRules ==
    /\ InitFakeDNSDefault
    /\ InitSplitTunnel
    /\ InitResolverWith(DefaultDNSPort, NilBypass)
    /\ InitEngineWith(RulesConfig)

NextRules ==
    \/ \E rule \in ListedRules : AddRule(rule)
    \/ \E name \in RuleNames : RemoveRule(name)
    \/ GetRules
    \/ \E i \in 1..MaxRules : WriteReturned(i, "mine")

SpecRules == InitRules /\ [][NextRules]_vars

\* construction on its own: configurations in which entries that do not
\* parse stand before, between and after entries that do
ConstructBlocks == {
    <<<<"1","0",".","0",".","0",".","0","/","8">>, <<"1","9","2",".","1","6","8",".","0",".","0","/","1","6">>>>,
    <<<<"b","o","g","u","s">>, <<"1","0",".","0",".","0",".","0","/","8">>, <<"1","9","2",".","1","6","8",".","0",".","0","/","1","6">>>>,
    <<<<"1","0",".","0",".","0",".","0","/","8">>, <<"1","0",".","0",".","0",".","0","/","3","3">>, <<"1","9","2",".","1","6","8",".","0",".","0","/","1","6">>>>,
    <<<<"1","9","2",".","1","6","8",".","0",".","0","/","1","6">>, <<"1","0",".","0",".","0",".","0","/","8">>, <<"1",".","2",".","3","/","8">>>>,
    <<<<"b","o","g","u","s">>>> }

BlockRule == Rule("net", "cidr", <<"8",".","8",".","0",".","0","/","1","6">>, "block")

BadRule == Rule("bad", "cidr", <<"1","0",".","0",".","0",".","0","/","3","3">>, "bypass")

ConstructRules == {
    <<ConfigRule, BlockRule>>,
    <<BadRule, ConfigRule, BlockRule>>,
    <<BlockRule, BadRule, ConfigRule>> }

ConstructGeo == {
    GeoOff,
    [Enabled |-> TRUE, DatabasePath |-> "missing.mmdb", Countries |-> <<"DE">>],
    [Enabled |-> TRUE, DatabasePath |-> "geo.mmdb", Countries |-> <<"DE">>] }

InitConstruct ==
    /\ InitFakeDNSDefault
    /\ InitSplitTunnel
    /\ InitResolverWith(DefaultDNSPort, NilBypass)
    /\ \E blocks \in ConstructBlocks, rules \in ConstructRules, geo \in ConstructGeo :
           InitEngineWith(
               [Enabled |-> TRUE,
                Domains |-> <<<<"*",".","l","o","c","a","l">>, <<"[","a">>, <<"e","x","a","m","p","l","e",".","c","o","m">>>>,
                CIDRs |-> blocks,
                Protocols |-> <<>>,
                Applications |-> <<>>,
                CustomRules |-> rules,
                GeoIP |-> geo])

NextConstruct ==
    \/ \E domain \in EngineDomains \cup {<<"[","a">>} : CallMatchDomain(domain)
    \/ \E ip \in EngineIPs : CallMatchIP(ip)

SpecConstruct == InitConstruct /\ [][NextConstruct]_vars

\* the country matcher: the nil matcher of a missing database, the matchers
\* without a database that the tests build, and one with a database
CountryCodes == {"US", "DE", "UK"}

Matchers == {
    NewGeoIPMatcher("", <<"US", "DE">>).matcher,
    NewGeoIPMatcher("geo.mmdb", <<"DE">>).matcher,
    [nil |-> FALSE, db |-> FALSE, closed |-> FALSE, countries |-> {}],
    [nil |-> FALSE, db |-> FALSE, closed |-> FALSE, countries |-> {"US"}] }

InitGeo ==
    /\ InitFakeDNSDefault
    /\ InitSplitTunnel
    /\ InitResolverWith(DefaultDNSPort, NilBypass)
    /\ ecfg = RulesConfig
    /\ domainPatterns = <<>>
    /\ cidrNets = <<>>
    /\ protocols = {}
    /\ applications = {}
    /\ customRules = <<>>
    /\ geoIP \in Matchers
    /\ elast = [op |-> "none"]
    /\ returned = <<>>

NextGeo ==
    \/ \E ip \in EngineIPs : CallGeoMatch(ip)
    \/ \E ip \in EngineIPs : CallGetCountry(ip)
    \/ \E code \in CountryCodes : AddCountry(code)
    \/ \E code \in CountryCodes : RemoveCountry(code)
    \/ Close
    \/ GetBypassedCountries

SpecGeo == InitGeo /\ [][NextGeo]_vars

\* both servers started and stopped by concurrent callers while their
\* handlers answer queries
LifecycleMessages == {Packet(1, <<Q(<<"b",".","i","o",".">>, "A")>>)}

LifecycleRequests == {Msg(1, <<Q(<<"e","x",".","c","o","m",".">>, "A")>>)}

NextLifecycle ==
    \/ \E g \in Goroutines :
         \/ CallStart(g)
         \/ StartBody(g)
         \/ CallStop(g)
         \/ StopBody(g)
         \/ StopWait(g)
         \/ \E s \in 1..Len(listener), r \in LifecycleMessages : HandleDNS(g, s, r)
         \/ HandleA(g)
         \/ GetFakeIPLock(g)
         \/ GetFakeIPCheck(g)
         \/ GetFakeIPAlloc(g)
         \/ GetFakeIPReturn(g)
         \/ HandleWrite(g)
         \/ Return(g)
         \/ ResolverCallStart(g)
         \/ ResolverStartBody(g)
         \/ ResolverCallStop(g)
         \/ ResolverStopBody(g)
         \/ ResolverStopWait(g)
         \/ \E r \in LifecycleRequests : Serve(g, r)
         \/ CacheLookup(g)
         \/ \E outcome \in Outcomes : resolveTor(g, outcome)
         \/ Finish(g)
    \/ \E s \in 1..Len(listener), bindOk \in BOOLEAN : ListenAndServe(s, bindOk)
    \/ \E s \in 1..Len(rlistener), bindOk \in BOOLEAN : ResolverListenAndServe(s, bindOk)

SpecLifecycle == InitRules /\ [][NextLifecycle]_vars

\* the FakeDNS server stopped while its handlers answer queries, under the
\* scheduling the Go runtime gives: a goroutine that can take its next step
\* takes it, one that waits for a mutex that is released again and again gets
\* it, and the goroutine Start launched runs
StopMessages == {
    Packet(1, <<Q(<<"b",".","i","o",".">>, "A")>>),
    Packet(1, <<Q(<<"a",".","i","o">>, "AAAA")>>),
    Packet(1, <<Q(ReverseName(<<198, 18, 0, 1>>), "PTR")>>) }

\* the next step of an operation goroutine g has begun
Proceed(g) ==
    \/ StartBody(g)
    \/ StopBody(g)
    \/ StopWait(g)
    \/ HandleA(g)
    \/ HandlePTR(g)
    \/ HandleOther(g)
    \/ GetFakeIPLock(g)
    \/ GetFakeIPCheck(g)
    \/ GetFakeIPAlloc(g)
    \/ GetFakeIPReturn(g)
    \/ HandleWrite(g)

Serving == \E s \in 1..Len(listener), bindOk \in BOOLEAN : ListenAndServe(s, bindOk)

\* the server started, stopped and sent the messages of a set
NextServing(messages) ==
    \/ \E g \in Goroutines :
         \/ CallStart(g)
         \/ CallStop(g)
         \/ \E s \in 1..Len(listener), r \in messages : HandleDNS(g, s, r)
         \/ Proceed(g)
         \/ Return(g)
    \/ Serving

NextStop == NextServing(StopMessages)

SpecStop ==
    /\ InitRules
    /\ [][NextStop]_vars
    /\ \A g \in Goroutines : SF_vars(Proceed(g))
    /\ WF_vars(Serving)

\* ptrToIP on its own, as its test calls it: on names put together from
\* labels and an ending, on the reverse names of addresses, and on the
\* inputs of TestPtrToIP
MaxLabels == 5

PtrLabels == { <<>>, <<"1">>, <<"1","9","8">> }

PtrLabelLists == UNION { [1..n -> PtrLabels] : n \in 0..MaxLabels }

PtrEndings == {
    InAddrArpa,
    <<".","I","N","-","A","D","D","R",".","A","R","P","A",".">>,
    <<".","i","n","-","a","d","d","r",".","a","r","p","a">>,
    <<".","i","p","6",".","a","r","p","a",".">>,
    <<>> }

PtrAddresses == { <<198, 18, 0, 1>>, <<198, 19, 255, 255>>, <<10, 1, 0, 0>> }

PtrTexts == {
    <<"i","n","v","a","l","i","d">>,
    <<>>,
    <<"s","h","o","r","t",".","a","r","p","a",".">>,
    <<"i","n","-","a","d","d","r",".","a","r","p","a",".">>,
    <<"x",".","y",".","1",".","0",".","1","8",".","1","9","8",".","i","n","-","a","d","d","r",".","a","r","p","a",".">>,
    <<"1",".","0",".","1","8",".","1","9","8",".","i","n","-","a","d","d","r",".","a","r","p","a",".","x">> }

RECURSIVE JoinDots(_)
\* labels written one after the other with a dot between two of them
JoinDots(labels) ==
    IF Len(labels) = 0 THEN <<>>
    ELSE IF Len(labels) = 1 THEN labels[1]
    ELSE labels[1] \o <<".">> \o JoinDots(Tail(labels))

PtrName(labels, ending) == JoinDots(labels) \o ending

CallPtrToIP(ptr) ==
    /\ elast' = Called("ptrToIP", ptr, ptrToIP(ptr))
    /\ UNCHANGED <<avars, fvars, rvars, ecfg, domainPatterns, cidrNets, protocols,
                   applications, customRules, geoIP, returned>>

\* ptrToIP reads and writes no state: a run is one call of it
NextPtr ==
    /\ elast.op = "none"
    /\ \/ \E labels \in PtrLabelLists, ending \in PtrEndings :
              CallPtrToIP(PtrName(labels, ending))
       \/ \E ip \in PtrAddresses : CallPtrToIP(ReverseName(ip))
       \/ \E ptr \in PtrTexts : CallPtrToIP(ptr)

SpecPtr == InitRules /\ [][NextPtr]_vars

\* the handler on its own: A questions for one name in two spellings, an
\* AAAA question, and PTR questions for an address that is handed out, for
\* one that is not, and for a name that is no reverse name
HandlerMessages == {
    Packet(1, <<Q(<<"b",".","i","o",".">>, "A")>>),
    Packet(1, <<Q(<<"a",".","i","o">>, "AAAA")>>),
    Packet(1, <<Q(ReverseName(<<198, 18, 0, 1>>), "PTR")>>),
    Packet(1, <<Q(ReverseName(<<10, 1, 0, 0>>), "PTR")>>),
    Packet(1, <<Q(<<"1",".","0",".","1","8",".","i","n","-","a","d","d","r",".","a","r","p","a",".">>, "PTR")>>),
    Packet(1, <<Q(<<"B",".","i","o">>, "A")>>),
    Packet(2, <<Q(<<"a",".","i","o">>, "AAAA"),
                Q(<<"b",".","i","o",".">>, "A")>>) }

NextHandler == NextServing(HandlerMessages)

SpecHandler == InitRules /\ [][NextHandler]_vars

\* LeakCheck on its own: the anonymizer's resolver answers with a code or the
\* exchange fails, and the dial to the public resolver succeeds or fails
LeakTest(name, passed, details, error) ==
    [Name |-> name, Passed |-> passed, Details |-> details, Error |-> error]

\* result.Passed: true unless some test has not passed
AllPassed(tests) == \A i \in 1..Len(tests) : tests[i].Passed

\* a plausible slip: the overall flag is the last test's
LeakCheckLastTest(torDNSPort, exchange, dial) ==
    LET first == IF exchange.err # ""
                 THEN LeakTest("DNS through Tor", FALSE, "", exchange.err)
                 ELSE LeakTest("DNS through Tor", exchange.rcode = "NOERROR",
                               "Response code: " \o exchange.rcode, "")
        second == IF dial = ""
                  THEN LeakTest("Direct DNS blocked", FALSE,
                                "Direct connection to 8.8.8.8:53 succeeded (potential leak)", "")
                  ELSE LeakTest("Direct DNS blocked", TRUE, "", "")
        tests == <<first, second>>
    IN [result |-> [Passed |-> second.Passed, Tests |-> tests],
        err |-> "nil",
        asked |-> "127.0.0.1:" \o ToString(torDNSPort)]

\* LeakCheck(ctx, torDNSPort), given what the exchange with the anonymizer's
\* resolver and the dial of 8.8.8.8:53 give (an error text, "" for none)
LeakCheck(torDNSPort, exchange, dial) ==
    LET first == IF exchange.err # ""
                 THEN LeakTest("DNS through Tor", FALSE, "", exchange.err)
                 ELSE LeakTest("DNS through Tor", exchange.rcode = "NOERROR",
                               "Response code: " \o exchange.rcode, "")
        second == IF dial = ""
                  THEN LeakTest("Direct DNS blocked", FALSE,
                                "Direct connection to 8.8.8.8:53 succeeded (potential leak)", "")
                  ELSE LeakTest("Direct DNS blocked", TRUE, "", "")
        tests == <<first, second>>
    IN [result |-> [Passed |-> AllPassed(tests), Tests |-> tests],
        err |-> "nil",
        asked |-> "127.0.0.1:" \o ToString(torDNSPort)]

LeakPorts == DNSPorts \cup {53, 5300, 9050, 9153}

LeakExchanges == {
    [err |-> "i/o timeout", rcode |-> ""],
    [err |-> "connection refused", rcode |-> ""],
    [err |-> "", rcode |-> "NOERROR"],
    [err |-> "", rcode |-> "NXDOMAIN"],
    [err |-> "", rcode |-> "SERVFAIL"],
    [err |-> "", rcode |-> "REFUSED"] }

LeakDials == {"", "i/o timeout", "network is unreachable"}

CallLeakCheck(torDNSPort, exchange, dial) ==
    /\ elast' = Called("LeakCheck", <<torDNSPort, exchange, dial>>,
                       LeakCheck(torDNSPort, exchange, dial))
    /\ UNCHANGED <<avars, fvars, rvars, ecfg, domainPatterns, cidrNets, protocols,
                   applications, customRules, geoIP, returned>>

\* LeakCheck reads and writes no state: a run is one call of it
NextLeak ==
    /\ elast.op = "none"
    /\ \E port \in LeakPorts, exchange \in LeakExchanges, dial \in LeakDials :
           CallLeakCheck(port, exchange, dial)

SpecLeak == InitRules /\ [][NextLeak]_vars

\* the resolver and the engine built from one bypass configuration, with
\* queries sent to the one and domains asked of the other
SharedConfigs ==
    {[IsNil |-> FALSE, Enabled |-> enabled, Domains |-> BypassDomains] :
         enabled \in BOOLEAN}

SharedDomains == {
    <<"p","c",".","l","a","n">>, <<"l","a","n">>, <<"P","C",".","L","A","N">>, <<"e","x",".","c","o","m">>,
    <<"E","x",".","C","o","m">>, <<"a",".","e","x",".","c","o","m">>, <<"w","l","a","n">> }

InitShared ==
    /\ InitFakeDNSDefault
    /\ InitSplitTunnel
    /\ \E bcfg \in SharedConfigs :
           /\ InitResolverWith(DefaultDNSPort, bcfg)
           /\ InitEngineWith([RulesConfig EXCEPT !.Enabled = bcfg.Enabled,
                                                 !.Domains = bcfg.Domains])

NextShared ==
    \/ \E g \in Goroutines :
         \/ \E r \in Requests : Receive(g, r)
         \/ QueryStep(g)
         \/ Finish(g)
    \/ \E domain \in SharedDomains : CallMatchDomain(domain)

SpecShared == InitShared /\ [][NextShared]_vars

\* the engine with custom rules of every type added and removed
TypedRules == {
    Rule("port", "port", <<"8","0">>, "bypass"),
    Rule("proto", "protocol", <<"t","c","p">>, "block"),
    Rule("app", "application", <<"c","u","r","l">>, "bypass"),
    Rule("geo", "geoip", <<"U","S">>, "bypass"),
    Rule("dom", "domain", <<"*",".","c","o","m">>, "block"),
    Rule("net", "cidr", <<"5",".","0",".","0",".","0","/","8">>, "tor") }

TypedRuleNames == {r.Name : r \in TypedRules}

TypedDomains == { <<"g","o","o","g","l","e",".","c","o","m">>, <<"t","e","s","t",".","l","o","c","a","l">>, <<"S","u","b",".","T","e","s","t",".","L","O","C","A","L">> }

TypedIPs == { <<5, 9, 0, 1>>, <<10, 9, 0, 1>>, <<172, 32, 0, 0>> }

NextTyped ==
    \/ \E proto \in EngineProtocols : CallMatchProtocol(proto)
    \/ \E appName \in EngineApplications : CallMatchApplication(appName)
    \/ \E rule \in TypedRules : AddRule(rule)
    \/ \E name \in TypedRuleNames : RemoveRule(name)

SpecTyped == InitEngine /\ [][NextTyped]_vars

\* compileGlobToRegex on its own, as its test calls it
GlobPatterns == {
    <<"*",".","l","o","c","a","l">>, <<"t","e","s","t",".","*">>, <<"t","e","s","t",".","?">>, <<"e","x","a","c","t",".","c","o","m">>,
    <<"a","+","b">>, <<"*">>, <<>>, <<"t","*","t">>, <<"[","a","]">>, <<"?">> }

GlobInputs == {
    <<"t","e","s","t",".","l","o","c","a","l">>, <<"s","u","b",".","t","e","s","t",".","l","o","c","a","l">>, <<"l","o","c","a","l">>, <<"t","e","s","t",".","c","o","m">>,
    <<"t","e","s","t",".","a">>, <<"t","e","s","t",".","a","b">>, <<"e","x","a","c","t",".","c","o","m">>, <<"n","o","t","e","x","a","c","t",".","c","o","m">>,
    <<"e","x","a","c","t","X","c","o","m">>, <<"a","+","b">>, <<"a","a","b">>, <<>>, <<"[","a","]">>, <<"a">>, <<"t","t">> }

NextGlob ==
    \E pattern \in GlobPatterns, input \in GlobInputs : CallCompileGlob(pattern, input)

SpecGlob == InitRules /\ [][NextGlob]_vars

----------------------------------------------------------------------------
(* The allocator's interface under concurrent callers *)

Next ==
    \E g \in Goroutines :
        \/ \E d \in Names : CallGetFakeIP(g, d)
        \/ GetFakeIPLock(g)
        \/ GetFakeIPCheck(g)
        \/ GetFakeIPAlloc(g)
        \/ GetFakeIPReturn(g)
        \/ \E ip \in ProbeIPs : CallGetDomainForIP(g, ip)
        \/ CallGetDomainForResult(g)
        \/ GetDomainForIPRead(g)
        \/ CallGetMappingCount(g)
        \/ GetMappingCountRead(g)
        \/ \E ip \in MemberProbes : IsFakeIP(g, ip)
        \/ \E maxAge \in Durations : CleanupOldMappings(g, maxAge)
        \/ Return(g)

Spec == Init /\ [][Next]_vars

----------------------------------------------------------------------------
(* The whole server: the interface, the lifecycle and the DNS handler *)

ServerNames == { <<"a",".","i","o">>, <<"A",".","i","o",".">>, <<"b",".","i","o",".">> }

ServerProbes == { <<198, 18, 0, 1>>, <<10, 1, 0, 0>> }

ServerMemberProbes == { <<198, 19, 255, 255>>, <<10, 1, 0, 0>> }

NextServer ==
    \/ \E g \in Goroutines :
         \/ \E d \in ServerNames : CallGetFakeIP(g, d)
         \/ GetFakeIPLock(g)
         \/ GetFakeIPCheck(g)
         \/ GetFakeIPAlloc(g)
         \/ GetFakeIPReturn(g)
         \/ \E ip \in ServerProbes : CallGetDomainForIP(g, ip)
         \/ CallGetDomainForResult(g)
         \/ GetDomainForIPRead(g)
         \/ CallGetMappingCount(g)
         \/ GetMappingCountRead(g)
         \/ \E ip \in ServerMemberProbes : IsFakeIP(g, ip)
         \/ \E maxAge \in Durations : CleanupOldMappings(g, maxAge)
         \/ CallStart(g)
         \/ StartBody(g)
         \/ CallStop(g)
         \/ StopBody(g)
         \/ StopWait(g)
         \/ \E s \in 1..Len(listener), r \in Messages : HandleDNS(g, s, r)
         \/ HandleA(g)
         \/ HandlePTR(g)
         \/ HandleOther(g)
         \/ HandleWrite(g)
         \/ Return(g)
    \/ \E s \in 1..Len(listener), bindOk \in BOOLEAN : ListenAndServe(s, bindOk)

SpecServer == Init /\ [][NextServer]_vars

----------------------------------------------------------------------------
(* Properties of the allocator *)

\* a 4-byte address as a number in two 16-bit halves, high half first
Halves(ip) == <<ip[1] * 256 + ip[2], ip[3] * 256 + ip[4]>>

\* the address plus n, modulo the 32-bit address space, in halves
Plus(ip, n) ==
    LET low == Halves(ip)[2] + n IN
    <<(Halves(ip)[1] + (low \div 65536)) % 65536, low % 65536>>

\* a <= b for numbers in halves
AtMost(a, b) == a[1] < b[1] \/ (a[1] = b[1] /\ a[2] <= b[2])

Done(g, op) == pc[g] = "done" /\ call[g].op = op

\* the number of addresses a mask leaves free
BlockSize(mask) ==
    (256 - mask[1]) * (256 - mask[2]) * (256 - mask[3]) * (256 - mask[4])

\* the address lies between the first and the last address of the block
InBlock(n, ip) ==
    LET x == To4(ip) IN
    /\ Len(x) = 4
    /\ AtMost(Halves(n.IP), Halves(x))
    /\ AtMost(Halves(x), Plus(n.IP, BlockSize(n.Mask) - 1))

StripDot(s) == IF Len(s) > 0 /\ s[Len(s)] = "." THEN SubSeq(s, 1, Len(s) - 1) ELSE s

\* two names differ at most in letter case and in the trailing dot
SameName(a, b) ==
    /\ Len(StripDot(a)) = Len(StripDot(b))
    /\ \A i \in 1..Len(StripDot(a)) :
         ToLowerRune(StripDot(a)[i]) = ToLowerRune(StripDot(b)[i])

Allocated == {mappings[d] : d \in DOMAIN mappings}

\* C1: under every interleaving of concurrent getFakeIP calls each canonical
\* domain is allocated exactly once: no domain occurs twice among the
\* allocations, every caller asking for it received the one address, and the
\* cursor has advanced by one per distinct domain.
C1_OneAllocationPerDomain ==
    /\ \A i, j \in 1..Len(order) : order[i] = order[j] => i = j
    /\ \A d \in DOMAIN issued : Cardinality(issued[d]) = 1
    /\ Len(order) = Cardinality(DOMAIN mappings)
    /\ Halves(nextIP) = Plus(fakeSubnet.IP, Cardinality(DOMAIN mappings) + 1)

\* one caller has just allocated a new domain and still holds the lock while
\* another caller asking for the same domain waits for it
C1_Witness ==
    \E g, h \in Goroutines :
        /\ g # h
        /\ pc[g] = "gfi_unlock"
        /\ order # <<>> /\ order[Len(order)] = loc[g].domain
        /\ ~MapHas(issued, loc[g].domain)
        /\ pc[h] = "gfi_lock"
        /\ SameName(loc[h].domain, loc[g].domain)

\* C2: two domains that differ after canonicalization never have the same
\* address, in the map and in what getFakeIP returned to its callers.
C2_DistinctAddresses ==
    /\ \A d1, d2 \in DOMAIN mappings : d1 # d2 => mappings[d1] # mappings[d2]
    /\ \A d1, d2 \in DOMAIN issued : d1 # d2 => issued[d1] \cap issued[d2] = {}
    /\ \A g, h \in Goroutines :
         /\ Done(g, "getFakeIP") /\ Done(h, "getFakeIP")
         /\ ~SameName(call[g].arg, call[h].arg)
         => ret[g].val # ret[h].val

C2_Witness ==
    /\ Cardinality(DOMAIN issued) = 3
    /\ \E g, h \in Goroutines :
         /\ Done(g, "getFakeIP") /\ Done(h, "getFakeIP")
         /\ ~SameName(call[g].arg, call[h].arg)

Bijection ==
    /\ \A d \in DOMAIN mappings :
         MapGet(reverseMaps, IPString(mappings[d]), <<>>) = d
    /\ \A k \in DOMAIN reverseMaps :
         /\ MapHas(mappings, reverseMaps[k])
         /\ IPString(mappings[reverseMaps[k]]) = k

PairsKept ==
    /\ \A d \in DOMAIN mappings : MapHas(mappings', d) /\ mappings'[d] = mappings[d]
    /\ \A k \in DOMAIN reverseMaps :
         MapHas(reverseMaps', k) /\ reverseMaps'[k] = reverseMaps[k]

\* C3: in every reachable state the forward and the reverse map are inverse
\* bijections of each other, and no step of any operation (getFakeIP, the DNS
\* handler, Start, Stop, CleanupOldMappings) changes or removes a pair.
C3_BijectionKept == [](Bijection) /\ [][PairsKept]_vars

\* two pairs exist, a server has been started and stopped again, and a
\* CleanupOldMappings call has completed
C3_Witness ==
    /\ Cardinality(DOMAIN mappings) >= 2
    /\ \E s \in 1..Len(listener) : listener[s] = "closed"
    /\ ~running
    /\ \E g \in Goroutines : Done(g, "CleanupOldMappings")

RepeatReturn(g) == pc[g] = "gfi_unlock" /\ MapHas(issued, loc[g].domain)

\* a getFakeIP call for a domain that was handed out before is about to return
RepeatIsIdempotent ==
    \A g \in Goroutines :
        RepeatReturn(g) =>
            /\ ret[g].val \in issued[loc[g].domain]
            /\ DOMAIN mappings = DOMAIN issued
            /\ Cardinality(DOMAIN mappings) = Len(order)
            /\ Halves(nextIP) = Plus(fakeSubnet.IP, Cardinality(DOMAIN issued) + 1)

\* GetMappingCount returns the number of distinct domains allocated so far
CountIsAllocations ==
    \A g \in Goroutines :
        pc[g] = "mc_read" /\ pc'[g] = "done" =>
            ret'[g].val = Cardinality({order[i] : i \in 1..Len(order)})

\* C4: a getFakeIP call for an already mapped domain returns the address of
\* the first call and leaves the cursor and the number of mappings as they
\* were; GetMappingCount returns the number of distinct domains allocated.
C4_Idempotent == [](RepeatIsIdempotent) /\ [][CountIsAllocations]_vars

C4_Witness ==
    \E g, h \in Goroutines :
        /\ RepeatReturn(g)
        /\ Done(h, "GetMappingCount")
        /\ ret[h].val = 2

NeverAllocated(ip) == To4(ip) \notin Allocated

\* C5, as claimed: GetDomainForIP(getFakeIP(d)) is d itself for any d.
C5_RoundTripGivesArgument ==
    \A g \in Goroutines :
        Done(g, "GetDomainForIP") /\ loc[g].asked # <<>> =>
            ret[g].val = loc[g].asked

\* C5, amended: GetDomainForIP(getFakeIP(d)) is the canonical form of d, and
\* GetDomainForIP of an address that was never allocated is the empty string.
C5_RoundTripGivesCanonical ==
    \A g \in Goroutines :
        Done(g, "GetDomainForIP") =>
            /\ loc[g].asked # <<>> => ret[g].val = ToLower(Fqdn(loc[g].asked))
            /\ NeverAllocated(call[g].arg) => ret[g].val = <<>>

C5_Witness ==
    \E g, h \in Goroutines :
        /\ Done(g, "GetDomainForIP")
        /\ loc[g].asked # <<>>
        /\ ret[g].val # loc[g].asked
        /\ Done(h, "GetDomainForIP")
        /\ NeverAllocated(call[h].arg)
        /\ mappings # EmptyMap

\* C6: the cursor starts at the network address plus one and advances by one
\* (with carry, modulo the address space) on every allocation and never
\* otherwise: the n-th allocated domain has the network address plus n; with
\* 198.18.0.0/15 the first two are 198.18.0.1 and 198.18.0.2.
C6_NthAddress ==
    /\ Halves(nextIP) = Plus(fakeSubnet.IP, Len(order) + 1)
    /\ \A n \in 1..Len(order) :
         /\ MapHas(mappings, order[n])
         /\ Halves(mappings[order[n]]) = Plus(fakeSubnet.IP, n)
    /\ fakeSubnet.IP = <<198, 18, 0, 0>> /\ Len(order) >= 2 =>
         /\ mappings[order[1]] = <<198, 18, 0, 1>>
         /\ mappings[order[2]] = <<198, 18, 0, 2>>

\* three allocations from 10.0.255.254/31: the increment has carried
C6_Witness ==
    /\ Len(order) = 3
    /\ fakeSubnet.IP = <<10, 0, 255, 254>>
    /\ mappings[order[2]] = <<10, 1, 0, 0>>

\* C7: IsFakeIP(a) is true exactly when a lies between the first and the last
\* address of the configured block, whatever has been allocated.
C7_IsFakeIPIsMembership ==
    \A g \in Goroutines :
        Done(g, "IsFakeIP") => (ret[g].val <=> InBlock(fakeSubnet, call[g].arg))

\* the last address of 198.18.0.0/15 is found to be inside while other
\* addresses are allocated and it is not
C7_Witness ==
    \E g \in Goroutines :
        /\ Done(g, "IsFakeIP")
        /\ call[g].arg = <<198, 19, 255, 255>>
        /\ ret[g].val = TRUE
        /\ Cardinality(DOMAIN mappings) >= 2
        /\ NeverAllocated(call[g].arg)

\* C8: names that differ only in letter case or in the trailing dot receive
\* the same address and are one mapping.
C8_CanonicalKey ==
    /\ \A g, h \in Goroutines :
         /\ Done(g, "getFakeIP") /\ Done(h, "getFakeIP")
         /\ SameName(call[g].arg, call[h].arg)
         => ret[g].val = ret[h].val
    /\ \A k1, k2 \in DOMAIN mappings : SameName(k1, k2) => k1 = k2

\* "a.io" and "A.io." have both been asked for and there is one mapping
C8_Witness ==
    /\ \E g, h \in Goroutines :
         /\ Done(g, "getFakeIP") /\ Done(h, "getFakeIP")
         /\ call[g].arg # call[h].arg
         /\ ToLower(call[g].arg) # ToLower(call[h].arg)
         /\ ~(call[g].arg = ToLower(call[g].arg))
         /\ SameName(call[g].arg, call[h].arg)
    /\ Cardinality(DOMAIN mappings) = 1

----------------------------------------------------------------------------
(* The resolver's routing *)

\* task g is handling, or has handled, a query with a question
HasQuery(g) == rpc[g] \notin {"idle", "rejected"} /\ Len(req[g].Question) > 0

\* the addresses task g's query was sent to
Destinations(g) == {sentTo[g][i].to : i \in 1..Len(sentTo[g])}

\* an exchange of task g's query ended in an error or timeout
ExchangeFailed(g, addr) ==
    \E i \in 1..Len(sentTo[g]) : sentTo[g][i] = Sent(addr, "err")

\* C9: a query whose domain the bypass check does not match is sent to the
\* anonymizer's local DNS port only, never to the system resolver, the
\* loopback resolver or the 9.9.9.9 fallback; when the exchange with the
\* anonymizer fails or times out the one reply is SERVFAIL.  (The anonymizer
\* port is one of DNSPorts, none of which is the loopback resolver's port 53.)
C9_NonBypassOnlyToAnonymizer ==
    \A g \in Goroutines :
        (HasQuery(g) /\ ~shouldBypass(QueryDomain(req[g]))) =>
            /\ Destinations(g) \subseteq {torUpstream}
            /\ Destinations(g) \cap {SystemResolver, LoopbackResolver, Fallback} = {}
            /\ ExchangeFailed(g, torUpstream) =>
                   /\ rpc[g] = "done"
                   /\ reply[g] = <<SetRcode(req[g], "SERVFAIL")>>

\* a query outside the bypass list was sent to the anonymizer, the exchange
\* failed and the SERVFAIL has been written, under an enabled bypass list
C9_Witness ==
    \E g \in Goroutines :
        /\ rpc[g] = "done"
        /\ HasQuery(g)
        /\ bypassCfg.Enabled
        /\ ~shouldBypass(QueryDomain(req[g]))
        /\ sentTo[g] = <<Sent(torUpstream, "err")>>
        /\ reply[g] = <<SetRcode(req[g], "SERVFAIL")>>

\* C10: a query whose domain the bypass check matches goes to the local
\* resolvers only: it is never sent to the anonymizer, not even when both
\* local resolvers fail, and the cache is neither read nor written for it.
C10_BypassNeverToAnonymizer ==
    \A g \in Goroutines :
        (HasQuery(g) /\ shouldBypass(QueryDomain(req[g]))) =>
            /\ Destinations(g) \subseteq {SystemResolver, LoopbackResolver}
            /\ torUpstream \notin Destinations(g)
            /\ cacheOps[g] = <<>>
            /\ ~MapHas(cache, CacheKey(QueryDomain(req[g]), QueryType(req[g])))
            /\ rpc[g] \in {"bypass_system", "bypass_loopback", "done"}

\* a bypass query both local resolvers failed on has been answered
C10_Witness ==
    \E g \in Goroutines :
        /\ rpc[g] = "done"
        /\ HasQuery(g)
        /\ shouldBypass(QueryDomain(req[g]))
        /\ sentTo[g] = <<Sent(SystemResolver, "err"), Sent(LoopbackResolver, "err")>>
        /\ reply[g] = <<SetRcode(req[g], "NXDOMAIN")>>
        /\ cacheOps[g] = <<>>

----------------------------------------------------------------------------
(* Cache freshness *)

\* the key task g's query is cached under
TaskKey(g) == CacheKey(QueryDomain(req[g]), QueryType(req[g]))

\* the age, at this moment, of the entry under key
Age(key) == now - cache[key].timestamp

\* task g's cache check served the entry it found, with the query's Id, and
\* sent the query nowhere
ServedFromCache(g) ==
    /\ rpc'[g] = "done"
    /\ reply'[g] = <<[cache[TaskKey(g)].response EXCEPT !.Id = req[g].Id]>>
    /\ reply'[g][1].Origin = torUpstream
    /\ sentTo'[g] = <<>>

\* task g's cache check wrote nothing and handed the query to resolveTor
TreatedAsMiss(g) ==
    /\ rpc'[g] = "tor_exchange"
    /\ reply'[g] = <<>>

\* the cache check of a non-bypass query, by the age of the entry
FreshnessStep ==
    \A g \in Goroutines :
        (rpc[g] = "cache_get" /\ rpc'[g] # "cache_get") =>
            /\ ~shouldBypass(QueryDomain(req[g]))
            /\ (MapHas(cache, TaskKey(g)) /\ Age(TaskKey(g)) < CacheMaxAge)
                   => ServedFromCache(g)
            /\ (MapHas(cache, TaskKey(g)) /\ Age(TaskKey(g)) > CacheMaxAge)
                   => TreatedAsMiss(g)
            /\ ~MapHas(cache, TaskKey(g)) => TreatedAsMiss(g)

\* C11: for a non-bypass query, a cached response for the same (domain,
\* query type) younger than the max age of 5 minutes is served without an
\* exchange with the anonymizer; an entry older than the max age is never
\* served, and the query goes on to the anonymizer as on a miss.
C11_CacheFreshness == [][FreshnessStep]_vars

\* a query found an entry older than the max age under its key, wrote no
\* reply from it and was forwarded to the anonymizer
C11_Witness ==
    \E g \in Goroutines :
        /\ HasQuery(g)
        /\ rpc[g] = "done"
        /\ cacheOps[g] = <<"get">>
        /\ sentTo[g] = <<Sent(torUpstream, "NXDOMAIN")>>
        /\ MapHas(cache, TaskKey(g))
        /\ Age(TaskKey(g)) > CacheMaxAge

----------------------------------------------------------------------------
(* Properties of the bypass engine *)

\* what a glob pattern means: '*' is any run of characters, '?' is any one
\* character, every other character is itself; the whole of s is matched
RECURSIVE GlobMatchesFrom(_, _, _, _)
GlobMatchesFrom(p, i, s, j) ==
    IF i > Len(p) THEN j = Len(s) + 1
    ELSE IF p[i] = "*"
    THEN \E k \in j..(Len(s) + 1) : GlobMatchesFrom(p, i + 1, s, k)
    ELSE IF p[i] = "?"
    THEN j <= Len(s) /\ GlobMatchesFrom(p, i + 1, s, j + 1)
    ELSE j <= Len(s) /\ s[j] = p[i] /\ GlobMatchesFrom(p, i + 1, s, j + 1)

GlobMatches(p, s) == GlobMatchesFrom(p, 1, s, 1)

\* the last call was op and its result is still the engine's answer
Last(op) == elast.op = op

\* the configuration has a domain pattern the lower-cased domain fits
ConfigPatternFits(domain) ==
    \E i \in 1..Len(ecfg.Domains) : GlobMatches(ecfg.Domains[i], ToLower(domain))

\* the positions of the custom domain rules the lower-cased domain fits
DomainRulesFitting(domain) ==
    {i \in 1..Len(customRules) :
        /\ customRules[i].Type = "domain"
        /\ GlobMatches(customRules[i].Pattern, ToLower(domain))}

\* C12: on an enabled engine a domain whose lower-cased form fits a
\* configuration-level pattern is matched with action bypass and no rule,
\* whatever custom rules fit it too; when no configuration-level pattern fits,
\* the first custom domain rule in insertion order that fits gives the rule
\* and the action; otherwise the result is non-matching.
C12_MatchDomainPrecedence ==
    (Last("MatchDomain") /\ ecfg.Enabled) =>
        LET fits == DomainRulesFitting(elast.arg) IN
        IF ConfigPatternFits(elast.arg)
        THEN /\ elast.ret.Matched
             /\ elast.ret.Action = "bypass"
             /\ elast.ret.Rule = NilRule
        ELSE IF fits # {}
        THEN /\ elast.ret.Matched
             /\ elast.ret.Rule = customRules[First(fits)]
             /\ elast.ret.Action = customRules[First(fits)].Action
        ELSE elast.ret = NoMatch

\* a domain that fits a configuration pattern and a custom rule whose action
\* is block was matched
C12_Witness ==
    /\ Last("MatchDomain")
    /\ ecfg.Enabled
    /\ ConfigPatternFits(elast.arg)
    /\ \E i \in DomainRulesFitting(elast.arg) : customRules[i].Action = "block"
    /\ elast.ret.Action = "bypass"

MatchCalls == {"MatchDomain", "MatchIP", "MatchProtocol", "MatchApplication"}

\* C13: a disabled engine matches nothing: with the configuration's Enabled
\* flag false, MatchDomain, MatchIP, MatchProtocol and MatchApplication give
\* Matched = false for every input, whatever patterns, blocks and sets are
\* configured and whatever custom rules were added with AddRule.
C13_DisabledMatchesNothing ==
    ~ecfg.Enabled =>
        /\ elast.op \in MatchCalls => elast.ret = NoMatch
        /\ \A domain \in EngineDomains : ~MatchDomain(domain).Matched
        /\ \A ip \in EngineIPs : ~MatchIP(ip).Matched
        /\ \A proto \in EngineProtocols : ~MatchProtocol(proto).Matched
        /\ \A appName \in EngineApplications : ~MatchApplication(appName).Matched

\* a disabled engine that was given a custom rule through AddRule was asked
\* about a configured application and did not match it
C13_Witness ==
    /\ ~ecfg.Enabled
    /\ Len(customRules) > Len(ecfg.CustomRules)
    /\ Last("MatchApplication")
    /\ ToLower(elast.arg) \in applications
    /\ elast.ret = NoMatch

\* the positions of the configured blocks that contain the address
BlocksContaining(ip) == {i \in 1..Len(cidrNets) : InBlock(cidrNets[i], ip)}

\* the engine has a country matcher and the address's country is in its set
CountryHit(ip) == ~geoIP.nil /\ geoIP.db /\ Country(ip) \in geoIP.countries

\* the positions of the custom cidr rules whose block contains the address
CidrRulesContaining(ip) ==
    {i \in 1..Len(customRules) :
        /\ customRules[i].Type = "cidr"
        /\ InBlock(customRules[i].compiled.net, ip)}

\* the blocks of the engine's address test
TestBlocks ==
    << ParseCIDR([addr |-> <<10, 0, 0, 0>>, ones |-> 8]),
       ParseCIDR([addr |-> <<192, 168, 0, 0>>, ones |-> 16]),
       ParseCIDR([addr |-> <<172, 16, 0, 0>>, ones |-> 12]),
       ParseCIDR([addr |-> <<127, 0, 0, 0>>, ones |-> 8]) >>

\* C14: on an enabled engine the configured blocks are tried first, in order
\* (the first block containing the address wins, action bypass); only when
\* none contains it the country matcher is asked (a hit gives bypass); only
\* when that misses too the custom cidr rules are tried in insertion order
\* (action from the rule); otherwise the result is non-matching.  With the
\* blocks 10.0.0.0/8, 192.168.0.0/16, 172.16.0.0/12, 127.0.0.0/8 the addresses
\* 10.255.255.255, 192.168.100.50, 172.31.255.255 and 127.0.0.1 match, and
\* 8.8.8.8 does not (no country or custom rule covering it).
C14_MatchIPPrecedence ==
    /\ (Last("MatchIP") /\ ecfg.Enabled) =>
        LET ip     == elast.arg
            blocks == BlocksContaining(ip)
            rules  == CidrRulesContaining(ip)
        IN  IF blocks # {}
            THEN elast.ret = BypassMatch(<<"matches CIDR ", cidrNets[First(blocks)]>>)
            ELSE IF CountryHit(ip)
            THEN elast.ret = BypassMatch(<<"matches country ", Country(ip)>>)
            ELSE IF rules # {}
            THEN /\ elast.ret.Matched
                 /\ elast.ret.Rule = customRules[First(rules)]
                 /\ elast.ret.Action = customRules[First(rules)].Action
            ELSE elast.ret = NoMatch
    /\ (ecfg.Enabled /\ cidrNets = TestBlocks) =>
        /\ MatchIP(<<10, 255, 255, 255>>).Matched
        /\ MatchIP(<<192, 168, 100, 50>>).Matched
        /\ MatchIP(<<172, 31, 255, 255>>).Matched
        /\ MatchIP(<<127, 0, 0, 1>>).Matched
        /\ (CidrRulesContaining(<<8, 8, 8, 8>>) = {} /\ ~CountryHit(<<8, 8, 8, 8>>))
               => ~MatchIP(Mapped16(<<8, 8, 8, 8>>)).Matched

\* an address outside every configured block, in a bypassed country and
\* inside a custom rule's block with another action, was matched
C14_Witness ==
    /\ Last("MatchIP")
    /\ ecfg.Enabled
    /\ cidrNets = TestBlocks
    /\ BlocksContaining(elast.arg) = {}
    /\ CountryHit(elast.arg)
    /\ \E i \in CidrRulesContaining(elast.arg) : customRules[i].Action = "tor"
    /\ elast.ret.Action = "bypass"
    /\ elast.ret.Rule = NilRule

\* the rule's pattern does not compile for the rule's type
FailsToCompile(rule) ==
    \/ rule.Type = "domain" /\ compileGlobToRegex(rule.Pattern).err
    \/ rule.Type = "cidr" /\ ~ParseCIDRText(rule.Pattern).ok

\* what callers see of a rule
Visible(rule) ==
    [Name |-> rule.Name, Type |-> rule.Type, Pattern |-> rule.Pattern,
     Action |-> rule.Action, Description |-> rule.Description]

\* every answer of the engine is the same after the step as before it
SameAnswers ==
    /\ \A domain \in EngineDomains : MatchDomain(domain)' = MatchDomain(domain)
    /\ \A ip \in EngineIPs : MatchIP(ip)' = MatchIP(ip)
    /\ \A proto \in EngineProtocols : MatchProtocol(proto)' = MatchProtocol(proto)
    /\ \A appName \in EngineApplications :
           MatchApplication(appName)' = MatchApplication(appName)
    /\ customRules' = customRules

\* an AddRule step either fails and changes nothing or appends the rule
AddRuleStep ==
    elast'.op = "AddRule" =>
        IF FailsToCompile(elast'.arg)
        THEN /\ elast'.ret = "error"
             /\ SameAnswers
        ELSE /\ elast'.ret = "nil"
             /\ Len(customRules') = Len(customRules) + 1
             /\ SubSeq(customRules', 1, Len(customRules)) = customRules
             /\ Visible(customRules'[Len(customRules')]) = Visible(elast'.arg)

\* C15: AddRule is atomic on failure: when the rule's pattern fails to
\* compile for its type AddRule returns an error and the custom rule set is
\* unchanged in content and order, so that every Match* result and GetRules
\* are as before the call; when it succeeds the rule is appended at the end.
C15_AddRuleAtomic == [][AddRuleStep]_vars

\* AddRule failed on an engine that holds custom rules
C15_Witness ==
    /\ Last("AddRule")
    /\ elast.ret = "error"
    /\ FailsToCompile(elast.arg)
    /\ Len(customRules) >= 2

\* the positions of the custom rules of that name
Named(name) == {i \in 1..Len(customRules) : customRules[i].Name = name}

\* a RemoveRule step takes out the first rule of the name and nothing else
RemoveRuleStep ==
    elast'.op = "RemoveRule" =>
        LET named == Named(elast'.arg) IN
        IF named = {}
        THEN /\ elast'.ret = FALSE
             /\ customRules' = customRules
        ELSE /\ elast'.ret = TRUE
             /\ Len(customRules') = Len(customRules) - 1
             /\ \A i \in 1..Len(customRules) :
                    /\ i < First(named) => customRules'[i] = customRules[i]
                    /\ i > First(named) => customRules'[i - 1] = customRules[i]

\* C16: RemoveRule(name) removes exactly the first custom rule, in insertion
\* order, whose name is name and returns true; every other rule, later rules
\* of the same name included, is kept in its relative order; when no rule has
\* that name it returns false and the rule set is unchanged.
C16_RemoveFirstByName == [][RemoveRuleStep]_vars

\* a rule was removed by name while a later rule of the same name and a rule
\* of another name were kept
C16_Witness ==
    /\ Last("RemoveRule")
    /\ elast.ret = TRUE
    /\ Len(customRules) = 2
    /\ customRules[1].Name # elast.arg
    /\ customRules[2].Name = elast.arg

\* the last call added a domain rule to an enabled engine
AddedDomainRule ==
    /\ Last("AddRule")
    /\ elast.ret = "nil"
    /\ elast.arg.Type = "domain"
    /\ ecfg.Enabled
    /\ Len(customRules) > 0
    /\ Visible(customRules[Len(customRules)]) = Visible(elast.arg)

\* before the rule just added was added, the domain was non-matching: no
\* configuration pattern and no earlier custom rule fits it
WasNonMatching(domain) ==
    /\ ~ConfigPatternFits(domain)
    /\ DomainRulesFitting(domain) \subseteq {Len(customRules)}

\* the domains the rule just added made matching, fitting it as spelled
MadeMatching ==
    {d \in EngineDomains : WasNonMatching(d) /\ GlobMatches(elast.arg.Pattern, d)}

\* the domains the rule just added made matching, fitting it in lower case
MadeMatchingLower ==
    {d \in EngineDomains :
        WasNonMatching(d) /\ GlobMatches(elast.arg.Pattern, ToLower(d))}

\* the rule just added is the only custom rule of its name
OnlyOneOfName == Named(elast.arg.Name) = {Len(customRules)}

\* the next step removes by the name of the rule just added
RemovesAdded == elast'.op = "RemoveRule" /\ elast'.arg = elast.arg.Name

\* what a step of the rule list or to another call changes
calls == <<elast.op, customRules>>

\* the statement as written: add r1, the domain matches; remove r1, it does not
LifecycleAsWritten ==
    AddedDomainRule =>
        \A d \in MadeMatching :
            /\ MatchDomain(d).Matched
            /\ MatchDomain(d).Action = elast.arg.Action
            /\ RemovesAdded => ~MatchDomain(d)'.Matched

\* C17 as written: after AddRule of a domain rule named r1 a previously
\* non-matching domain that fits the rule's pattern matches with the rule's
\* action, and after RemoveRule(r1) it is non-matching again.  This fails when
\* an earlier custom rule has the same name: RemoveRule takes that one out.
C17_LifecycleAnyName == [][LifecycleAsWritten]_calls

\* the statement with the name of the added rule borne by no other rule
LifecycleUniqueName ==
    AddedDomainRule =>
        \A d \in MadeMatchingLower :
            /\ MatchDomain(d).Matched
            /\ MatchDomain(d).Action = elast.arg.Action
            /\ MatchDomain(d).Rule = customRules[Len(customRules)]
            /\ (RemovesAdded /\ OnlyOneOfName) =>
                   /\ elast'.ret = TRUE
                   /\ ~MatchDomain(d)'.Matched

\* C17: on an enabled engine, after AddRule of a domain rule named r1 a
\* previously non-matching domain whose lower-cased form fits the rule's
\* pattern matches with the rule's action; after RemoveRule(r1), when no
\* other custom rule is named r1, the same domain is non-matching again.
C17_LifecycleUniqueName == [][LifecycleUniqueName]_calls

\* a rule named r1 was added next to a rule of another name and made a
\* domain match that matched nothing before
C17_Witness ==
    /\ AddedDomainRule
    /\ OnlyOneOfName
    /\ Len(customRules) >= 2
    /\ \E d \in MadeMatchingLower :
           /\ d # ToLower(d)
           /\ MatchDomain(d).Action = "block"

\* what a call on the rule list or a write by its caller changes
lists == <<elast.op, customRules, returned>>

\* the rules of a list as a caller sees them
VisibleList(rules) == [i \in 1..Len(rules) |-> Visible(rules[i])]

\* rules is what is left of from after taking one element out
OneTakenOut(rules, from) ==
    \E i \in 1..Len(from) :
        rules = SubSeq(from, 1, i - 1) \o SubSeq(from, i + 1, Len(from))

\* one step of the engine and of the holder of a returned list
GetRulesStep ==
    /\ elast'.op = "GetRules" =>
           /\ returned' = customRules
           /\ elast'.ret = customRules
           /\ customRules' = customRules
    /\ elast'.op = "AddRule" =>
           /\ returned' = returned
           /\ elast'.ret = "nil" =>
                  /\ Len(customRules') = Len(customRules) + 1
                  /\ SubSeq(customRules', 1, Len(customRules)) = customRules
                  /\ Visible(customRules'[Len(customRules')]) = Visible(elast'.arg)
           /\ elast'.ret = "error" => customRules' = customRules
    /\ elast'.op = "RemoveRule" =>
           /\ returned' = returned
           /\ elast'.ret => OneTakenOut(customRules', customRules)
           /\ ~elast'.ret => customRules' = customRules
    /\ elast'.op = "write" =>
           /\ customRules' = customRules
           /\ returned' # returned

\* C18: GetRules returns a copy of the custom rules: one element for each
\* rule added and not removed, in the order of insertion; AddRule and
\* RemoveRule afterwards leave the returned list as it was, and a write into
\* the returned list leaves the engine's rules as they were.
C18_GetRulesCopy == [][GetRulesStep]_lists

\* two rules were added and listed, the holder of the list renamed its first
\* element, and the engine then removed a rule: the two lists differ in
\* length and in the name
C18_Witness ==
    /\ Last("RemoveRule")
    /\ elast.ret = TRUE
    /\ Len(returned) = 2
    /\ Len(customRules) = 1
    /\ returned[1].Name = "mine"
    /\ customRules[1].Name # "mine"

\* name is, letter case aside, one of the configured names
ConfiguredName(names, name) ==
    \E i \in 1..Len(names) : ToLower(names[i]) = ToLower(name)

\* the last call's result is a match with action bypass bound to no rule
IsBypass == elast.ret.Matched /\ elast.ret.Action = "bypass" /\ elast.ret.Rule = NilRule

\* C19: on an enabled engine MatchProtocol (MatchApplication) answers matched
\* with action bypass exactly when the lower-cased name equals the lower-cased
\* form of a configured bypass protocol (application) name, whatever the
\* letter case of either; otherwise it answers not matched.
C19_NameMembership ==
    /\ (Last("MatchProtocol") /\ ecfg.Enabled) =>
           IF ConfiguredName(ecfg.Protocols, elast.arg)
           THEN IsBypass ELSE elast.ret = NoMatch
    /\ (Last("MatchApplication") /\ ecfg.Enabled) =>
           IF ConfiguredName(ecfg.Applications, elast.arg)
           THEN IsBypass ELSE elast.ret = NoMatch

\* a protocol asked about in capitals matched an entry configured in lower
\* case, or one asked about in lower case matched an entry in capitals
C19_Witness ==
    /\ Last("MatchProtocol")
    /\ IsBypass
    /\ \E i \in 1..Len(ecfg.Protocols) :
           /\ ecfg.Protocols[i] # elast.arg
           /\ ToLower(ecfg.Protocols[i]) = ToLower(elast.arg)

\* the last call compiled a pattern and matched an input against it
GlobCall(pattern, input) ==
    Last("compileGlobToRegex") /\ elast.arg = <<pattern, input>>

\* the examples of the statement and of the repository's test
GlobExamples ==
    /\ GlobCall(<<"*",".","l","o","c","a","l">>, <<"t","e","s","t",".","l","o","c","a","l">>) => elast.ret.match
    /\ GlobCall(<<"*",".","l","o","c","a","l">>, <<"s","u","b",".","t","e","s","t",".","l","o","c","a","l">>) => elast.ret.match
    /\ GlobCall(<<"*",".","l","o","c","a","l">>, <<"l","o","c","a","l">>) => ~elast.ret.match
    /\ GlobCall(<<"t","e","s","t",".","?">>, <<"t","e","s","t",".","a">>) => elast.ret.match
    /\ GlobCall(<<"t","e","s","t",".","?">>, <<"t","e","s","t",".","a","b">>) => ~elast.ret.match
    /\ \A input \in GlobInputs :
           GlobCall(<<"e","x","a","c","t",".","c","o","m">>, input) =>
               (elast.ret.match <=> input = <<"e","x","a","c","t",".","c","o","m">>)

\* C20: a compiled glob matches an input only as a whole, '*' standing for
\* zero or more characters, '?' for exactly one and every other character,
\* the dot included, for itself: "*.local" matches "test.local" and
\* "sub.test.local" but not "local", "test.?" matches "test.a" but not
\* "test.ab", and "exact.com" matches only "exact.com".
C20_GlobAnchored ==
    /\ Last("compileGlobToRegex") =>
           /\ ~elast.ret.err
           /\ elast.ret.match <=> GlobMatches(elast.arg[1], elast.arg[2])
    /\ GlobExamples

\* a pattern was refused an input that holds a match of it as a proper part,
\* or one in which another character stands where the pattern has a dot
C20_Witness ==
    /\ Last("compileGlobToRegex")
    /\ ~elast.ret.match
    /\ \/ elast.arg = <<<<"e","x","a","c","t",".","c","o","m">>, <<"n","o","t","e","x","a","c","t",".","c","o","m">>>>
       \/ elast.arg = <<<<"e","x","a","c","t",".","c","o","m">>, <<"e","x","a","c","t","X","c","o","m">>>>
       \/ elast.arg = <<<<"t","e","s","t",".","?">>, <<"t","e","s","t",".","a","b">>>>

\* the address-block texts of the configurations that are not blocks
BadBlockTexts == {<<"b","o","g","u","s">>, <<"1","0",".","0",".","0",".","0","/","3","3">>, <<"1",".","2",".","3","/","8">>}

\* the block a well-formed text of the configurations stands for
BlockOf(text) ==
    IF text = <<"1","0",".","0",".","0",".","0","/","8">> THEN ParseCIDR([addr |-> <<10, 0, 0, 0>>, ones |-> 8])
    ELSE IF text = <<"1","9","2",".","1","6","8",".","0",".","0","/","1","6">>
    THEN ParseCIDR([addr |-> <<192, 168, 0, 0>>, ones |-> 16])
    ELSE ParseCIDR([addr |-> <<8, 8, 0, 0>>, ones |-> 16])

BadCustomRule(r) == r.Type = "cidr" /\ r.Pattern \in BadBlockTexts

\* the configuration with its bad entries taken out
WithoutBad(c) ==
    [c EXCEPT !.CIDRs = SelectSeq(@, LAMBDA s : s \notin BadBlockTexts),
              !.CustomRules = SelectSeq(@, LAMBDA r : ~BadCustomRule(r)),
              !.GeoIP = IF @.Enabled /\ @.DatabasePath \notin Files THEN GeoOff ELSE @]

\* C21: construction does not fail on a bad entry: an address block or custom
\* rule of the configuration that does not parse is skipped (no domain glob
\* fails to compile), NewEngine returns an engine and no error, and the
\* well-formed entries are loaded in their order and match as they would
\* with the bad entries absent from the configuration.
C21_ConstructionSkipsBad ==
    LET good == WithoutBad(ecfg)
        E    == NewEngine(good)
    IN  /\ ~NewEngine(ecfg).err
        /\ Len(domainPatterns) = Len(ecfg.Domains)
        /\ Len(cidrNets) = Len(good.CIDRs)
        /\ \A i \in 1..Len(cidrNets) : cidrNets[i] = BlockOf(good.CIDRs[i])
        /\ Len(customRules) = Len(good.CustomRules)
        /\ \A i \in 1..Len(customRules) :
               /\ Visible(customRules[i]) = Visible(good.CustomRules[i])
               /\ customRules[i].Type = "cidr" =>
                      customRules[i].compiled = [kind |-> "ipnet",
                                                 net |-> BlockOf(customRules[i].Pattern)]
        /\ geoIP.nil <=> ~good.GeoIP.Enabled
        /\ <<domainPatterns, cidrNets, customRules, geoIP>> =
               <<E.domainPatterns, E.cidrNets, E.customRules, E.geoIP>>
        /\ Last("MatchIP") =>
               (elast.ret.Matched <=>
                   \/ \E i \in 1..Len(good.CIDRs) : InBlock(BlockOf(good.CIDRs[i]), elast.arg)
                   \/ good.GeoIP.Enabled /\ Country(elast.arg) = "DE"
                   \/ InBlock(BlockOf(<<"8",".","8",".","0",".","0","/","1","6">>), elast.arg))
        /\ Last("MatchDomain") =>
               (elast.ret.Matched <=>
                   \/ \E i \in 1..Len(ecfg.Domains) :
                          GlobMatches(ecfg.Domains[i], ToLower(elast.arg))
                   \/ GlobMatches(ConfigRule.Pattern, ToLower(elast.arg)))

\* an address matched the block that stands after a block that does not
\* parse, in a configuration that also holds a rule that does not compile
\* and the path of a database that cannot be opened
C21_Witness ==
    /\ Len(ecfg.CIDRs) = 3
    /\ ecfg.CIDRs[2] \in BadBlockTexts
    /\ \E i \in 1..Len(ecfg.CustomRules) : BadCustomRule(ecfg.CustomRules[i])
    /\ ecfg.GeoIP.DatabasePath = "missing.mmdb"
    /\ Last("MatchIP")
    /\ elast.arg = <<192, 168, 100, 50>>
    /\ elast.ret.Matched
    /\ elast.ret.Reason = <<"matches CIDR ", BlockOf(ecfg.CIDRs[3])>>

----------------------------------------------------------------------------
(* Properties of the country matcher *)

\* the matcher has no database: it is nil, or it was built without one
Disabled == geoIP.nil \/ ~geoIP.db

\* C22: the matcher is usable without a database, the nil matcher that
\* NewGeoIPMatcher returns for a missing database included: Match answers no
\* match, GetCountry the empty code, and AddCountry, RemoveCountry and Close
\* complete without a fault.
C22_DisabledMatcherSafe ==
    Disabled =>
        /\ Last("Match") => elast.ret = [country |-> "", ok |-> FALSE]
        /\ Last("GetCountry") => elast.ret = ""
        /\ Last("GetBypassedCountries") => Len(elast.ret) = Cardinality(geoIP.countries)
        /\ (Last("AddCountry") \/ Last("RemoveCountry") \/ Last("Close")) =>
               ~elast.ret.fault

\* the matcher has a database that is open
Loaded == ~geoIP.nil /\ geoIP.db /\ ~geoIP.closed

\* C23 as written: with a database, Match returns the code of the address's
\* country and a flag that tells whether the code is in the configured set,
\* the code also when the flag is false; GetCountry returns the code.  Match
\* returns the empty code with a false flag.
C23_MatchAlwaysGivesCode ==
    Loaded =>
        /\ Last("Match") =>
               /\ elast.ret.country = Country(elast.arg)
               /\ elast.ret.ok <=> Country(elast.arg) \in geoIP.countries
        /\ Last("GetCountry") => elast.ret = Country(elast.arg)

\* C23: with a database, Match returns the code of the address's country and
\* a true flag when the code is in the configured set, and the empty code and
\* a false flag when it is not; GetCountry returns the code whether or not
\* it is in the set.
C23_MatchGivesCodeWhenInSet ==
    Loaded =>
        /\ Last("Match") =>
               elast.ret = IF Country(elast.arg) \in geoIP.countries
                           THEN [country |-> Country(elast.arg), ok |-> TRUE]
                           ELSE [country |-> "", ok |-> FALSE]
        /\ Last("GetCountry") => elast.ret = Country(elast.arg)

\* Match was asked about an address whose country the database knows and the
\* set does not hold
C23_Witness ==
    /\ Loaded
    /\ Last("Match")
    /\ Country(elast.arg) = "US"
    /\ "US" \notin geoIP.countries
    /\ "DE" \in geoIP.countries
    /\ elast.ret = [country |-> "", ok |-> FALSE]

\* what a call on the matcher or a change of the matcher changes
matcher == <<elast.op, geoIP>>

\* one call on a matcher that is not nil
CountryStep ==
    ~geoIP.nil =>
        /\ elast'.op = "AddCountry" =>
               /\ geoIP'.countries = geoIP.countries \cup {elast'.arg}
               /\ elast'.arg \in geoIP.countries => geoIP' = geoIP
               /\ ~elast'.ret.fault
        /\ elast'.op = "RemoveCountry" =>
               /\ geoIP'.countries = geoIP.countries \ {elast'.arg}
               /\ elast'.arg \notin geoIP.countries => geoIP' = geoIP
               /\ ~elast'.ret.fault
        /\ elast'.op \notin {"AddCountry", "RemoveCountry"} =>
               geoIP'.countries = geoIP.countries

\* the list last returned holds each code of the set once and nothing else
ListedOnce ==
    (Last("GetBypassedCountries") /\ ~geoIP.nil) =>
        /\ Len(elast.ret) = Cardinality(geoIP.countries)
        /\ {elast.ret[i] : i \in 1..Len(elast.ret)} = geoIP.countries

\* C24: on a matcher that is not nil, AddCountry puts the code into the set
\* and changes nothing when the code is in it already, RemoveCountry takes
\* it out and changes nothing when it is absent, no other call changes the
\* set, and GetBypassedCountries returns the codes of the set, each once: the
\* configured codes never removed and the codes whose last operation was an
\* add.
C24_CountrySetIdempotent == []ListedOnce /\ [][CountryStep]_matcher

\* a matcher built with "US" alone lists "DE" before "US" after "DE" was
\* added, "UK" absent
C24_Witness ==
    /\ ~geoIP.nil
    /\ ~geoIP.db
    /\ Last("GetBypassedCountries")
    /\ elast.ret = <<"DE", "US">>

----------------------------------------------------------------------------
(* Properties of Start and Stop *)

\* what a step of Start, Stop or a serving goroutine changes
lifecycles == <<pc, running, server, listener, rrunning, rserver, rlistener>>

\* goroutine g leaves the body of the call with its result
Returns(g, from) == pc[g] \in from /\ pc'[g] = "done"

\* Start and Stop of the FakeDNS server, one step of goroutine g
FakeDNSLifecycleStep(g) ==
    /\ Returns(g, {"st_body"}) =>
           IF running
           THEN /\ ret'[g] = AlreadyRunning
                /\ Lifecycle' = Lifecycle
           ELSE /\ ret'[g] = NilError
                /\ running'
                /\ server' \notin 1..Len(listener)
                /\ server' \in 1..Len(listener')
    /\ Returns(g, {"sp_body", "sp_wait"}) =>
           /\ ret'[g] = NilError
           /\ ~running'
           /\ ~running => Lifecycle' = Lifecycle

\* Start and Stop of the resolver, one step of goroutine g
ResolverLifecycleStep(g) ==
    /\ Returns(g, {"rst_body"}) =>
           IF rrunning
           THEN /\ ret'[g] = ResolverAlreadyRunning
                /\ <<rrunning, rserver, rlistener>>' = <<rrunning, rserver, rlistener>>
           ELSE /\ ret'[g] = NilError
                /\ rrunning'
                /\ rserver' \notin 1..Len(rlistener)
                /\ rserver' \in 1..Len(rlistener')
    /\ Returns(g, {"rsp_body", "rsp_wait"}) =>
           /\ ret'[g] = NilError
           /\ ~rrunning'
           /\ ~rrunning =>
                  <<rrunning, rserver, rlistener>>' = <<rrunning, rserver, rlistener>>

\* C25: of the FakeDNS server and of the resolver: a Start that finds the
\* instance running returns the "already running" error and leaves it
\* running with the server it has; a Stop that returns from a running
\* instance leaves it not running and returns no error; a Stop that finds it
\* not running changes nothing and returns no error, whatever Start and Stop
\* calls run beside it.
C25_StartStopLifecycle ==
    [][\A g \in Goroutines : FakeDNSLifecycleStep(g) /\ ResolverLifecycleStep(g)]_lifecycles

\* a second Start of the FakeDNS server was refused while it runs, and
\* beside it a Stop of the resolver, which had been started, has returned
C25_Witness ==
    \E g, h \in Goroutines :
        /\ call[g].op = "Start"
        /\ pc[g] = "done"
        /\ ret[g] = AlreadyRunning
        /\ running
        /\ call[h].op = "ResolverStop"
        /\ pc[h] = "done"
        /\ ret[h] = NilError
        /\ ~rrunning
        /\ Len(rlistener) = 1

\* no Start of the FakeDNS server is under way and it is not running: the
\* last of its Start and Stop calls to return was a Stop
FakeDNSStopped ==
    /\ ~running
    /\ Len(listener) > 0
    /\ \A g \in Goroutines : pc[g] # "st_body"

\* the same of the resolver
ResolverStopped ==
    /\ ~rrunning
    /\ Len(rlistener) > 0
    /\ \A g \in Goroutines : pc[g] # "rst_body"

\* C26: once Stop has returned and no Start was called after it, the
\* server's listener holds no port and takes no queries, however Stop was
\* interleaved with the serving goroutine that the Start before it launched.
C26_StopReleasesPort ==
    /\ FakeDNSStopped => \A s \in 1..Len(listener) : listener[s] # "serving"
    /\ ResolverStopped => \A s \in 1..Len(rlistener) : rlistener[s] # "serving"

\* a call of Stop is under way on goroutine g
Stopping(g) == pc[g] \in {"sp_body", "sp_wait"}

\* goroutine g is a handler that has not written its reply yet
Handling(g) == call[g].op = "handleDNS" /\ pc[g] # "done"

\* C27: under fair scheduling a Stop called while handlers run returns, and
\* every query in flight is answered: Stop, which holds the server's lock
\* while it waits for the listener, and a handler that needs that lock never
\* block each other for ever.
C27_StopTerminates ==
    \A g \in Goroutines :
        /\ Stopping(g) ~> pc[g] = "done"
        /\ Handling(g) ~> pc[g] = "done"

----------------------------------------------------------------------------
(* Properties of the reverse-name decoding *)

PtrCall(ptr) == Last("ptrToIP") /\ elast.arg = ptr

\* the labels of a name: what stands between its dots, empty pieces left out
Present(labels) == SelectSeq(labels, LAMBDA l : l # <<>>)

Reversed(s) == [i \in 1..Len(s) |-> s[Len(s) + 1 - i]]

\* the reverse-lookup suffix in the spellings of one DNS name: in either
\* case, with the final dot or without
ReverseEndings == { InAddrArpa, <<".","I","N","-","A","D","D","R",".","A","R","P","A",".">>, <<".","i","n","-","a","d","d","r",".","a","r","p","a">> }

\* C28: ptrToIP of a name made of exactly four labels and the reverse-lookup
\* suffix is the four labels in reversed order with dots between them, so the
\* reverse name d.c.b.a.in-addr.arpa. of an address a.b.c.d decodes to
\* a.b.c.d; a name with another suffix, with more or fewer labels, or shorter
\* than the suffix decodes to the empty string, and no input makes it fail.
C28_PtrDecoding ==
    /\ \A labels \in PtrLabelLists, ending \in PtrEndings :
           PtrCall(PtrName(labels, ending)) =>
               elast.ret = IF ending \in ReverseEndings /\ Len(Present(labels)) = 4
                           THEN JoinDots(Reversed(Present(labels)))
                           ELSE <<>>
    /\ \A ip \in PtrAddresses : PtrCall(ReverseName(ip)) => elast.ret = IPString(ip)
    /\ \A ptr \in PtrTexts : PtrCall(ptr) => elast.ret = <<>>

\* the reverse name of 198.18.0.1 was decoded, to 198.18.0.1
C28_Witness ==
    /\ PtrCall(<<"1",".","0",".","1","8",".","1","9","8",".","i","n","-","a","d","d","r",".","a","r","p","a",".">>)
    /\ elast.ret = <<"1","9","8",".","1","8",".","0",".","1">>

----------------------------------------------------------------------------
(* Properties of the FakeDNS handler *)

\* goroutine g runs, or has run, the handler
InHandler(g) == call[g].op = "handleDNS"

\* the handler on goroutine g has written its reply
Replied(g) == InHandler(g) /\ ret[g].kind = "msg"

OfType(seq, field, type) == SelectSeq(seq, LAMBDA x : x[field] = type)

\* the domains to which the address with reverse name ptr was handed out
OwnersOf(ptr) ==
    {d \in DOMAIN issued : \E a \in issued[d] : ReverseName(a) = ptr}

\* the reply on goroutine g answers every A question, in order, with the one
\* address ever handed out for its name; its PTR records carry the domain
\* the address of their name was handed out to; it has no other record
AnswersOf(g) ==
    LET answer == ret[g].val.Answer
        asked == call[g].arg.Question
        as == OfType(answer, "Rrtype", "A")
        qs == OfType(asked, "Qtype", "A")
        ptrs == OfType(answer, "Rrtype", "PTR")
    IN
    /\ Len(as) = Len(qs)
    /\ \A i \in 1..Len(qs) :
           /\ as[i].Name = qs[i].Name
           /\ as[i].Ttl = TTL
           /\ MapGet(issued, CanonicalName(qs[i].Name), {}) = {as[i].Data}
    /\ \A i \in 1..Len(ptrs) :
           /\ \E j \in 1..Len(asked) :
                  asked[j].Qtype = "PTR" /\ asked[j].Name = ptrs[i].Name
           /\ ptrs[i].Ttl = TTL
           /\ ptrs[i].Data \in OwnersOf(ptrs[i].Name)
           /\ ptrs[i].Data = CanonicalName(ptrs[i].Data)
    /\ Len(answer) = Len(as) + Len(ptrs)

\* goroutine g's handler is at a PTR question and this step takes it past it
PassesPTR(g) ==
    /\ InHandler(g)
    /\ pc[g] = "h_loop"
    /\ loc[g].i <= Len(call[g].arg.Question)
    /\ call[g].arg.Question[loc[g].i].Qtype = "PTR"
    /\ loc'[g].i = loc[g].i + 1

\* a PTR question for the reverse name of an address handed out before gets
\* one PTR record, and any other PTR question gets none
PTRStep(g) ==
    PassesPTR(g) =>
        LET q == call[g].arg.Question[loc[g].i] IN
        IF OwnersOf(q.Name) # {}
        THEN \E d \in OwnersOf(q.Name) :
                 loc'[g].answer = Append(loc[g].answer,
                     [Name |-> q.Name, Rrtype |-> "PTR", Ttl |-> TTL, Data |-> d])
        ELSE loc'[g].answer = loc[g].answer

handlers == <<pc, loc>>

\* C29: the handler answers an A question with the address allocated to the
\* name (allocated when the name is first seen) and the configured TTL, and
\* every later A question for the name with the same address; it answers a
\* PTR question for the reverse name of an address handed out before with
\* the canonical domain the address was allocated to, and adds no record for
\* a PTR question about an address never allocated or a malformed name.
C29_HandlerAnswers ==
    /\ [](\A g \in Goroutines : Replied(g) => AnswersOf(g))
    /\ [][\A g \in Goroutines : PTRStep(g)]_handlers

\* the first address of the block was handed out for b.io. and two replies
\* are out: one gives B.io the same address, the other names b.io. for the
\* reverse name of that address
C29_Witness ==
    \E g, h \in Goroutines :
        /\ Replied(g)
        /\ Replied(h)
        /\ order = << <<"b",".","i","o",".">> >>
        /\ ret[g].val.Answer =
               <<[Name |-> <<"B",".","i","o">>, Rrtype |-> "A", Ttl |-> TTL,
                  Data |-> <<198, 18, 0, 1>>]>>
        /\ ret[h].val.Answer =
               <<[Name |-> ReverseName(<<198, 18, 0, 1>>), Rrtype |-> "PTR",
                  Ttl |-> TTL, Data |-> <<"b",".","i","o",".">>]>>

\* goroutine g's handler is at a question of one of the types and this step
\* takes it past that question
Passes(g, types) ==
    /\ InHandler(g)
    /\ pc[g] = "h_loop"
    /\ loc[g].i <= Len(call[g].arg.Question)
    /\ call[g].arg.Question[loc[g].i].Qtype \in types
    /\ pc'[g] = "h_loop"
    /\ loc'[g].i = loc[g].i + 1

\* a step of goroutine g in a handler whose message asks no A question
StepWithoutA(g) ==
    /\ call'[g].op = "handleDNS"
    /\ OfType(call'[g].arg.Question, "Qtype", "A") = <<>>
    /\ pc'[g] # pc[g] \/ loc'[g] # loc[g]

Allocations == <<mappings, reverseMaps, nextIP>>

\* answering an AAAA or a PTR question, and the whole handling of a message
\* without an A question, leaves both maps and the cursor as they were
AllocatesNothing(g) ==
    (Passes(g, {"AAAA", "PTR"}) \/ StepWithoutA(g)) => Allocations' = Allocations

\* a reply has no record for an AAAA question: none of that type, and none
\* at all when the message asked AAAA questions only
NoAAAARecord(g) ==
    LET answer == ret[g].val.Answer
        asked == call[g].arg.Question
    IN
    /\ OfType(answer, "Rrtype", "AAAA") = <<>>
    /\ \A i \in 1..Len(answer), j \in 1..Len(asked) :
           asked[j].Qtype = "AAAA" => answer[i].Name # asked[j].Name
    /\ (\A j \in 1..Len(asked) : asked[j].Qtype = "AAAA") => answer = <<>>

allocating == <<pc, loc, Allocations>>

\* C30: the handler answers an AAAA question with an empty record set, and
\* handling it, like handling a PTR question, allocates nothing: the forward
\* map, the reverse map and the cursor are unchanged.
C30_AAAAEmptyAndNoAllocation ==
    /\ [](\A g \in Goroutines : Replied(g) => NoAAAARecord(g))
    /\ [][\A g \in Goroutines : AllocatesNothing(g)]_allocating

\* the reply to the AAAA question for a.io is out: it has no record, and
\* nothing was ever allocated
C30_Witness ==
    \E g \in Goroutines :
        /\ Replied(g)
        /\ call[g].arg.Question = <<Q(<<"a",".","i","o">>, "AAAA")>>
        /\ ret[g].val.Answer = <<>>
        /\ mappings = EmptyMap
        /\ reverseMaps = EmptyMap
        /\ nextIP = <<198, 18, 0, 1>>

----------------------------------------------------------------------------
(* Properties of both handlers on a message without a question *)

\* the reply to a message without a question sent to the resolver is one
\* message with a failure code
ResolverFailsQuestionless ==
    \A g \in Goroutines :
        (rpc[g] \in {"done", "rejected"} /\ Len(req[g].Question) = 0) =>
            /\ Len(reply[g]) = 1
            /\ reply[g][1].Rcode \in {"SERVFAIL", "REFUSED", "FORMERR"}

\* the FakeDNS handler's reply to a message without a question is a failure
FakeDNSFailsQuestionless ==
    \A g \in Goroutines :
        (Replied(g) /\ Len(call[g].arg.Question) = 0) =>
            ret[g].val.Rcode # "NOERROR"

\* C31: a message without a question is answered with a protocol-level
\* failure, by the resolver's handler and by the FakeDNS handler alike; it is
\* neither dropped nor answered as a success.
C31_QuestionlessFails ==
    /\ ResolverFailsQuestionless
    /\ FakeDNSFailsQuestionless

----------------------------------------------------------------------------
(* Properties of the leak self-test *)

\* C32: LeakCheck returns no error and a result with exactly two tests, "DNS
\* through Tor" and "Direct DNS blocked"; the first has passed exactly when
\* the anonymizer's resolver answered with the success code, the second
\* exactly when the direct connection to the public resolver failed, and
\* the result has passed exactly when both tests have.
C32_LeakCheckAggregates ==
    Last("LeakCheck") =>
        LET exchange == elast.arg[2]
            dial == elast.arg[3]
            result == elast.ret.result
        IN
        /\ elast.ret.err = "nil"
        /\ Len(result.Tests) = 2
        /\ result.Tests[1].Name = "DNS through Tor"
        /\ result.Tests[2].Name = "Direct DNS blocked"
        /\ result.Tests[1].Passed <=> (exchange.err = "" /\ exchange.rcode = "NOERROR")
        /\ result.Tests[2].Passed <=> dial # ""
        /\ result.Passed <=> (result.Tests[1].Passed /\ result.Tests[2].Passed)

\* the resolver answered NXDOMAIN and the direct connection failed: the first
\* test has failed, the second has passed, the result has not passed
C32_Witness ==
    /\ Last("LeakCheck")
    /\ elast.arg[2] = [err |-> "", rcode |-> "NXDOMAIN"]
    /\ elast.arg[3] = "i/o timeout"
    /\ ~elast.ret.result.Tests[1].Passed
    /\ elast.ret.result.Tests[2].Passed
    /\ ~elast.ret.result.Passed

----------------------------------------------------------------------------
(* Properties of the resolver's paths *)

\* the handler on task g has returned from a query for a bypass domain
BypassDone(g) ==
    /\ rpc[g] = "done"
    /\ Len(req[g].Question) > 0
    /\ shouldBypass(QueryDomain(req[g]))

Failed(exchange) == exchange.outcome = "err"

\* the exchanges of task g are with the system resolver and, only after that
\* one failed, with the loopback resolver; the reply is the response of the
\* first of them that answered, or the resolver's own NXDOMAIN
DirectOrder(g) ==
    LET sent == sentTo[g] IN
    /\ Len(sent) \in {1, 2}
    /\ sent[1].to = SystemResolver
    /\ Len(sent) = 2 <=> Failed(sent[1])
    /\ Len(sent) = 2 => sent[2].to = LoopbackResolver
    /\ Len(reply[g]) = 1
    /\ reply[g][1] =
           IF ~Failed(sent[1])
           THEN Response(req[g], sent[1].outcome, SystemResolver)
           ELSE IF ~Failed(sent[2])
           THEN Response(req[g], sent[2].outcome, LoopbackResolver)
           ELSE SetRcode(req[g], "NXDOMAIN")
    /\ reply[g][1].Origin = "resolver" <=> \A i \in 1..Len(sent) : Failed(sent[i])

\* C33: for a bypass domain the system resolver 127.0.0.53 is tried first and
\* the loopback resolver 127.0.0.1 only if that attempt failed; the reply is
\* the first resolver's response if it answered, else the second's, and the
\* resolver's own NXDOMAIN reply exactly when both attempts failed; the
\* caller always gets a reply and no error.
C33_DirectResolveOrder == \A g \in Goroutines : BypassDone(g) => DirectOrder(g)

\* the system resolver failed, the loopback resolver answered: its response
\* is the reply
C33_Witness ==
    \E g \in Goroutines :
        /\ BypassDone(g)
        /\ Len(sentTo[g]) = 2
        /\ reply[g] = <<Response(req[g], "NOERROR", LoopbackResolver)>>

\* a response of the anonymizer's resolver with the success code
FromAnonymizer(m) == m.Origin = torUpstream /\ m.Rcode = "NOERROR"

\* every cache entry holds a successful response of the anonymizer's
\* resolver, under the key of the query it answers
CacheHoldsSuccesses ==
    \A key \in DOMAIN cache :
        LET m == cache[key].response IN
        /\ FromAnonymizer(m)
        /\ Len(m.Question) > 0
        /\ key = CacheKey(QueryDomain(m), QueryType(m))

\* task g writes a reply in this step
Writes(g) == Len(reply'[g]) = Len(reply[g]) + 1

Written(g) == reply'[g][Len(reply'[g])]

\* a successful response of the anonymizer is in the cache, under its query's
\* key, when it is written to the caller; a reply of any other kind is
\* written without the cache being touched
StoredBeforeReturned(g) ==
    Writes(g) =>
        IF FromAnonymizer(Written(g))
        THEN LET key == CacheKey(QueryDomain(req[g]), QueryType(req[g])) IN
             /\ key \in DOMAIN cache'
             /\ [cache'[key].response EXCEPT !.Id = req[g].Id] = Written(g)
        ELSE cache' = cache

caching == <<reply, cache>>

\* C34: every cache entry of the resolver holds a response that came from
\* the anonymizer's resolver with the success code and was stored before it
\* was returned to the caller; failed exchanges, responses with another
\* code, the resolver's own SERVFAIL and NXDOMAIN replies and the responses
\* of the direct resolvers are never cached, however concurrent queries for
\* the same domain and type are interleaved.
C34_CacheOnlySuccesses ==
    /\ []CacheHoldsSuccesses
    /\ [][\A g \in Goroutines : StoredBeforeReturned(g)]_caching

\* two queries for the same domain and type have been answered by the
\* anonymizer, one with NXDOMAIN and one with success: the cache has the entry
C34_Witness ==
    \E g, h \in Goroutines :
        /\ rpc[g] = "done" /\ rpc[h] = "done"
        /\ Len(req[g].Question) > 0 /\ Len(req[h].Question) > 0
        /\ QueryDomain(req[g]) = QueryDomain(req[h])
        /\ sentTo[g] = <<Sent(torUpstream, "NXDOMAIN")>>
        /\ sentTo[h] = <<Sent(torUpstream, "NOERROR")>>
        /\ CacheKey(QueryDomain(req[h]), QueryType(req[h])) \in DOMAIN cache

\* a query has no reply while it is under way and can always go on; when its
\* handler has returned it has exactly one
OneReply(g) ==
    /\ rpc[g] = "done" => Len(reply[g]) = 1
    /\ rpc[g] = "rejected" => reply[g] = <<Rejection(req[g])>>
    /\ rpc[g] \notin {"idle", "done", "rejected"} =>
           Len(reply[g]) = 0 /\ ENABLED QueryStep(g)

\* the reply of a finished query is the one its own path gives: SERVFAIL to
\* a message without a question; to a bypass query a direct resolver's
\* response or NXDOMAIN; else the cached response, or the anonymizer's
\* response, or SERVFAIL when the exchange with the anonymizer failed
ReplyOfPath(g) ==
    LET m == reply[g][1]
        sent == sentTo[g]
    IN
    /\ m.Id = req[g].Id
    /\ IF Len(req[g].Question) = 0
       THEN sent = <<>> /\ m = SetRcode(req[g], "SERVFAIL")
       ELSE IF shouldBypass(QueryDomain(req[g]))
       THEN /\ sent # <<>>
            /\ m = IF Failed(sent[Len(sent)])
                   THEN SetRcode(req[g], "NXDOMAIN")
                   ELSE Response(req[g], sent[Len(sent)].outcome, sent[Len(sent)].to)
       ELSE IF sent = <<>>
       THEN FromAnonymizer(m)
       ELSE /\ Len(sent) = 1
            /\ sent[1].to = torUpstream
            /\ m = IF Failed(sent[1])
                   THEN SetRcode(req[g], "SERVFAIL")
                   ELSE Response(req[g], sent[1].outcome, torUpstream)

\* the step in which task g writes its reply leaves every other task's
\* query, position and reply as they were
OthersUntouched(g) ==
    Writes(g) =>
        \A h \in Goroutines \ {g} :
            /\ reply'[h] = reply[h]
            /\ rpc'[h] = rpc[h]
            /\ req'[h] = req[h]

replies == <<rpc, req, reply>>

\* C35: every query the resolver handles gets exactly one reply, on each of
\* its paths (no question, direct resolution succeeding or failing, cache hit,
\* forwarding succeeding or failing), and a failure on one query's path
\* neither changes the reply of another query nor stops the resolver.
C35_ExactlyOneReply ==
    /\ [](\A g \in Goroutines : OneReply(g) /\ (rpc[g] = "done" => ReplyOfPath(g)))
    /\ [][\A g \in Goroutines : OthersUntouched(g)]_replies

\* one query has failed at the anonymizer and got SERVFAIL while another,
\* begun before that reply, has been answered by the anonymizer
C35_Witness ==
    \E g, h \in Goroutines :
        /\ rpc[g] = "done" /\ rpc[h] = "done"
        /\ sentTo[g] = <<Sent(torUpstream, "err")>>
        /\ reply[g] = <<SetRcode(req[g], "SERVFAIL")>>
        /\ sentTo[h] = <<Sent(torUpstream, "NOERROR")>>
        /\ reply[h] = <<Response(req[h], "NOERROR", torUpstream)>>

----------------------------------------------------------------------------
(* The allocator and the bounds of its block *)

\* C36: every address getFakeIP has returned lies inside the configured
\* block, so that IsFakeIP of it is true, after any number of allocations;
\* and no address is handed out to two domains.
C36_AllocatedInsideBlock ==
    /\ \A d \in DOMAIN issued : \A a \in issued[d] : Contains(fakeSubnet, a)
    /\ \A d \in DOMAIN mappings : Contains(fakeSubnet, mappings[d])
    /\ \A d1, d2 \in DOMAIN issued : d1 # d2 => issued[d1] \cap issued[d2] = {}

----------------------------------------------------------------------------
(* The resolver's bypass check beside the engine's *)

\* C37: built from the same enabled bypass configuration, a list of domains
\* without custom rules, the resolver's shouldBypass and the engine's
\* MatchDomain give the same answer for every domain, the bare suffix of a
\* "*.suffix" pattern and domains in upper case included.
C37_BypassChecksAgree ==
    \A domain \in SharedDomains : shouldBypass(domain) <=> MatchDomain(domain).Matched

----------------------------------------------------------------------------
(* Custom rules by type *)

SameDomainMatches == \A domain \in TypedDomains : MatchDomain(domain)' = MatchDomain(domain)

SameIPMatches == \A ip \in TypedIPs : MatchIP(ip)' = MatchIP(ip)

SameOtherMatches ==
    /\ \A proto \in EngineProtocols : MatchProtocol(proto)' = MatchProtocol(proto)
    /\ \A appName \in EngineApplications :
           MatchApplication(appName)' = MatchApplication(appName)

\* the type of the rule this step adds or removes, "" if it does neither
TypeChanged ==
    IF elast'.op = "AddRule" /\ elast'.ret = "nil" THEN elast'.arg.Type
    ELSE IF elast'.op = "RemoveRule" /\ elast'.ret = TRUE
    THEN customRules[First(Named(elast'.arg))].Type
    ELSE ""

\* a rule that is neither a domain pattern nor an address block is added as
\* it is, without a compiled form, and adding or removing it changes no
\* answer; a domain rule changes no answer about addresses, an address
\* block none about domains, and neither any about protocols or applications
TypedRuleStep ==
    /\ (elast'.op = "AddRule" /\ elast'.arg.Type \notin {"domain", "cidr"}) =>
           /\ elast'.ret = "nil"
           /\ customRules' = Append(customRules, elast'.arg)
           /\ elast'.arg.compiled = NilCompiled
    /\ TypeChanged # "" => SameOtherMatches
    /\ TypeChanged \notin {"", "domain"} => SameDomainMatches
    /\ TypeChanged \notin {"", "cidr"} => SameIPMatches

\* C38: custom rules of a type other than domain and cidr (port, protocol,
\* application, geoip) are stored uncompiled and never change a
\* classification: adding or removing one leaves MatchDomain, MatchIP,
\* MatchProtocol and MatchApplication as they were for every input; a custom
\* domain rule never changes MatchIP and a custom cidr rule never MatchDomain.
C38_OtherTypesInert == [][TypedRuleStep]_calls

\* a protocol rule for tcp and an application rule for curl are in the rule
\* set of an enabled engine, and MatchProtocol("tcp") has found no match
C38_Witness ==
    /\ ecfg.Enabled
    /\ \E i, j \in 1..Len(customRules) :
           /\ customRules[i].Type = "protocol" /\ customRules[i].Pattern = <<"t","c","p">>
           /\ customRules[j].Type = "application"
    /\ Last("MatchProtocol")
    /\ elast.arg = <<"t","c","p">>
    /\ ~elast.ret.Matched

----------------------------------------------------------------------------
(* Start and the binding of the port *)

\* C39: when Start has returned no error and the server is marked running,
\* its listener is bound to the configured address or is about to be: a
\* failure to bind the port is never behind a nil result with running set.
C39_StartMeansServing ==
    /\ (running /\ server # 0) => listener[server] # "failed"
    /\ (rrunning /\ rserver # 0) => rlistener[rserver] # "failed"

----------------------------------------------------------------------------
(* The split-tunnel classifier: the category the user sets *)

TunnelApps == {"curl"}

\* the path RecordConnection is given for an application
ExecPathOf(appName) == "/usr/bin/" \o appName

\* the domains of the recorded connections: one that no expression matches
\* and one that a sensitive expression matches
RecordDomains == {<<"e","x","a","m","p","l","e",".","o","r","g">>, <<"B","a","n","k",".","i","o">>}

\* the domains asked of ShouldUseTor
TunnelDomains ==
    RecordDomains \cup {<<"E","x","a","m","p","l","e",".","N","E","T">>, <<"c","d","n",".","i","o">>, <<"m","a","i","l",".","E","F","F",".","o","r","g">>}

\* the domains the user adds
AddedDomains == {<<"E","x","a","m","p","l","e",".","N","E","T">>}

\* a profile as saveData wrote it after nine connections to example.org
SavedProfile(sensitive, speed) ==
    updateCategory([NewProfile("curl", ExecPathOf("curl"), "learning") EXCEPT
                       !.ConnectionCount = 9,
                       !.SensitivePatterns = sensitive,
                       !.SpeedSensitive = speed,
                       !.Domains = <<<<"e","x","a","m","p","l","e",".","o","r","g">>>>])

\* loadData: no file of profiles, or one with the profile of curl
SavedProfiles ==
    {EmptyMap} \cup
    {[name \in {"curl"} |-> SavedProfile(saved[1], saved[2])] :
         saved \in {<<0, 9>>, <<3, 0>>}}

InitTunnel ==
    /\ InitFakeDNSDefault
    /\ InitResolverWith(DefaultDNSPort, NilBypass)
    /\ InitEngineWith(RulesConfig)
    /\ \E saved \in SavedProfiles : InitSplitTunnelWith(saved)

NextTunnel ==
    \/ \E appName \in TunnelApps, alwaysTor \in BOOLEAN : SetAppCategory(appName, alwaysTor)
    \/ \E g \in Goroutines, appName \in TunnelApps, domain \in RecordDomains,
          isSensitive \in BOOLEAN, isSpeedCritical \in BOOLEAN :
           RecordConnectionCheck(g, appName, ExecPathOf(appName), domain,
                                 isSensitive, isSpeedCritical)
    \/ \E g \in Goroutines : RecordConnection(g)
    \/ \E enabled \in BOOLEAN : EnableLearning(enabled)
    \/ \E domain \in AddedDomains : AddSensitiveDomain(domain)
    \/ \E domain \in AddedDomains : AddSpeedDomain(domain)
    \/ ResetLearning
    \/ \E appName \in TunnelApps, domain \in TunnelDomains : CallShouldUseTor(appName, domain)

SpecTunnel == InitTunnel /\ [][NextTunnel]_vars

\* the domain matches a sensitive or speed domain or expression of initPatterns
BuiltIn(domain) ==
    \/ \E d \in BuiltInSensitiveDomains \cup BuiltInSpeedDomains :
           ContainsString(ToLower(domain), d)
    \/ MatchesAny(sensitivePatterns, ToLower(domain))
    \/ MatchesAny(speedPatterns, ToLower(domain))

\* the step is a call of SetAppCategory, and after it ShouldUseTor answers
\* as the call said for every domain that is not built in
HonouredWhenSet ==
    alast'.op = "SetAppCategory" =>
        \A appName \in TunnelApps, domain \in TunnelDomains :
            (alast'.arg[1] = appName /\ ~BuiltIn(domain)) =>
                LET answer == ShouldUseTor(appName, domain)'
                IN /\ answer.useTor = alast'.arg[2]
                   /\ alast'.arg[2] => answer.reason = "user_defined"

\* the step is a call of RecordConnection, and the answers for the
\* applications whose category the user has set are what they were
KeptWhenRecorded ==
    alast'.op = "RecordConnection" =>
        \A appName \in TunnelApps, domain \in TunnelDomains :
            (/\ MapHas(ai.appProfiles, appName)
             /\ ai.appProfiles[appName].Category = "user_defined"
             /\ ~BuiltIn(domain))
                => ShouldUseTor(appName, domain)' = ShouldUseTor(appName, domain)

classifying == <<alast.op, alast.arg, ai>>

\* C40: after SetAppCategory(app, alwaysTor) ShouldUseTor(app, d) answers
\* useTor = alwaysTor, with the reason user_defined when alwaysTor is set,
\* for every domain d that is not built in, and later calls of
\* RecordConnection for that application leave the answers as they are.
C40_UserCategoryHonoured == [][HonouredWhenSet /\ KeptWhenRecorded]_classifying

====
